---- MODULE Spec2Model ----
(***************************************************************************)
(* Model of the scela in-process message bus (pkg/scela): the bus facade,  *)
(* its worker pool and bounded queue, the subscription registry, the       *)
(* pattern matcher and the middleware chain.                               *)
(*                                                                         *)
(* Strings are sequences of one-character strings, so that splitting and   *)
(* substring tests are computed as the code computes them.                 *)
(* Go runtime semantics used by the code and modelled here:                *)
(*  - a buffered channel of capacity QueueCap with a FIFO buffer, a FIFO   *)
(*    list of parked senders, hand-off of the first parked sender's value  *)
(*    by a receive, panic on send to / close of a closed channel;          *)
(*  - select with a send case and a ctx.Done case: any ready case may be   *)
(*    chosen, the goroutine parks when none is ready;                      *)
(*  - sync.RWMutex b.mu: the write critical sections of the code never     *)
(*    block inside, so each is one atomic step enabled when no reader      *)
(*    holds the lock; the readers are the client calls between their       *)
(*    RLock and their deferred RUnlock.                                    *)
(*  - a panic in any goroutine ends the process: no step follows it.       *)
(***************************************************************************)
EXTENDS Integers, Sequences, FiniteSets, TLC

\* ------------------------------------------------------------------ bounds
\* capacity of the queue channel in the model (1000 in New)
QueueCap == 1
\* largest worker count New is configured with
MaxWorkers == 1
\* largest maxRetries New is configured with
MaxMaxRetries == 2
\* number of client goroutines calling the bus
NumClients == 2
\* total number of calls the clients make
MaxCalls == 3

Clients == 1..NumClients

\* ------------------------------------------------------ strings and inputs
Dot  == "."
Star == "*"
Hash == "#"

Topics   == { <<"x">> }
Patterns == { <<>>, <<"x">> }

\* handler values a caller may pass to Subscribe; NilHandler is Go's nil
NilHandler == "nil"
Handlers   == { "hOk", "hFail" }
\* the values of the WithDeadLetterHandler option: none, or a handler
DlqHandlers == { NilHandler, "hOk" }

\* panics of the Go runtime
NoPanic          == "none"
PanicPublishSend == "Publish: send on closed channel"
PanicRetrySend   == "handleError: send on closed channel"
PanicWrapRace    == "wrapWithMiddleware: unsynchronised read of b.middleware torn by Use"
PanicCloseClosed == "Close: close of closed channel"

\* error values
Nil          == "nil"
ErrHandler   == "handler error"
ErrHandler2  == "second handler error"
ErrBusClosed == "bus is closed"
ErrAlreadyClosed == "bus already closed"
ErrCanceled  == "context canceled"
ErrInvalidPattern == "subscription pattern cannot be empty"
ErrInvalidHandler == "handler cannot be nil"
ErrNotFound  == "subscription not found"

PriorityLow    == 0
PriorityNormal == 1
PriorityHigh   == 2
PriorityUrgent == 3
Priorities == { PriorityLow, PriorityNormal, PriorityHigh, PriorityUrgent }

VARIABLES
  workers,        \* bus.workers
  maxRetries,     \* bus.maxRetries
  dlqHandler,     \* bus.dlqHandler: NilHandler, or the dead-letter handler set
  closed,         \* bus.closed
  middleware,     \* bus.middleware: sequence of middleware values
  queue,          \* buffer of the channel bus.queue: sequence of envelopes
  qcap,           \* cap(bus.queue)
  qclosed,        \* the channel bus.queue has been closed
  sendq,          \* goroutines parked on a send to bus.queue, in arrival order
  subscriptions,  \* registry.subscriptions: id -> subscription
  patterns,       \* registry.patterns: pattern -> sequence of ids
  wpc,            \* position of each worker goroutine
  wenv,           \* the envelope a worker holds
  whandlers,      \* the handlers a worker resolved for its envelope
  pc,             \* position of each client goroutine
  arg,            \* the call a client is in, its arguments and locals
  last,           \* history: the call that returned last and what it returned
  nextMsg,        \* generateID in NewMessage: number of message ids generated
  nextSub,        \* generateID in registry.Add: number of subscription ids generated
  callsLeft,      \* number of calls the clients may still start
  msgs,           \* history: per message id, its fate
  panicked,       \* NoPanic, or the panic that ended the process
  closeReturned,  \* history: a Close call has returned nil
  observer,       \* bus.observers: TRUE when an observer was added (WithObserver)
  notified,       \* the observer's record: how often each of its methods was called
  traced,         \* history: the handlers and middleware log their invocations
  locks           \* history: the lock operations made in the last step, in order

vars == << workers, maxRetries, dlqHandler, qcap, closed, middleware, queue, qclosed,
           sendq, subscriptions, patterns, wpc, wenv, whandlers, pc, arg,
           last, nextMsg, nextSub, callsLeft, msgs, panicked, closeReturned,
           observer, notified, traced, locks >>

cfgVars  == << workers, maxRetries, dlqHandler, qcap, observer, traced >>
regVars  == << subscriptions, patterns >>
workVars == << wpc, wenv, whandlers >>
cliVars  == << pc, arg, last >>
idVars   == << nextMsg, nextSub >>

Workers == 1..workers

\* the observer's record before any notification
NoNotes == [publish |-> 0, subscribe |-> 0, unsubscribe |-> 0, processed |-> 0,
            close |-> 0]
\* observers.Notify<kind>: every observer added has its method called
Notify(kind) ==
  IF observer THEN [notified EXCEPT ![kind] = @ + 1] ELSE notified
NoEnv   == [id |-> 0]
NoArg   == [k |-> "none"]

\* ------------------------------------------------------------ pattern.go
RECURSIVE Contains(_, _)
Contains(s, ch) ==
  IF s = <<>> THEN FALSE
  ELSE IF Head(s) = ch THEN TRUE ELSE Contains(Tail(s), ch)

\* strings.Split(s, "."): the segments between the dots, at least one
RECURSIVE SplitAcc(_, _, _)
SplitAcc(s, cur, acc) ==
  IF s = <<>> THEN Append(acc, cur)
  ELSE IF Head(s) = Dot THEN SplitAcc(Tail(s), <<>>, Append(acc, cur))
  ELSE SplitAcc(Tail(s), Append(cur, Head(s)), acc)

Split(s) == SplitAcc(s, <<>>, <<>>)

\* (variant: the loop returns after the first segment)
SegmentsMatch_FirstOnly(pp, tp, i) ==
  pp[i] = <<Star>> \/ pp[i] = tp[i]

\* the loop over the segments, from segment i on
RECURSIVE SegmentsMatch(_, _, _)
SegmentsMatch(pp, tp, i) ==
  IF i > Len(pp) THEN TRUE
  ELSE IF pp[i] = <<Star>> THEN SegmentsMatch(pp, tp, i + 1)
  ELSE IF pp[i] # tp[i] THEN FALSE
  ELSE SegmentsMatch(pp, tp, i + 1)

\* (variant: the exact-match test compares the pattern with the start of the topic)
Match_Prefix(pattern, topic) ==
  IF pattern = <<Star>> \/ pattern = <<Hash>> THEN TRUE
  ELSE IF Len(pattern) <= Len(topic) /\ SubSeq(topic, 1, Len(pattern)) = pattern
       THEN TRUE
  ELSE IF ~Contains(pattern, Star) THEN FALSE
  ELSE LET patternParts == Split(pattern)
           topicParts   == Split(topic)
       IN IF Len(patternParts) # Len(topicParts) THEN FALSE
          ELSE SegmentsMatch(patternParts, topicParts, 1)

Match(pattern, topic) ==
  IF pattern = <<Star>> \/ pattern = <<Hash>> THEN TRUE
  ELSE IF pattern = topic THEN TRUE
  ELSE IF ~Contains(pattern, Star) THEN FALSE
  ELSE LET patternParts == Split(pattern)
           topicParts   == Split(topic)
       IN IF Len(patternParts) # Len(topicParts) THEN FALSE
          ELSE SegmentsMatch(patternParts, topicParts, 1)

\* (variant: the last element is moved into the place of the first occurrence of x)
RemoveFirst_SwapLast(s, x) ==
  LET P == { i \in 1..Len(s) : s[i] = x }
  IN IF P = {} THEN s
     ELSE LET i == CHOOSE k \in P : \A j \in P : k <= j
          IN SubSeq([s EXCEPT ![i] = s[Len(s)]], 1, Len(s) - 1)

\* -------------------------------------------------------- subscription.go
\* the sequence s without its first occurrence of x
RECURSIVE RemoveFirst(_, _)
RemoveFirst(s, x) ==
  IF s = <<>> THEN <<>>
  ELSE IF Head(s) = x THEN Tail(s) ELSE <<Head(s)>> \o RemoveFirst(Tail(s), x)

\* registry.Add past its argument checks: the maps after storing id
AddSubscriptions(id, pattern, handler) ==
  [i \in DOMAIN subscriptions \cup {id} |->
     IF i = id THEN [pattern |-> pattern, handler |-> handler]
     ELSE subscriptions[i]]

\* (variant: the new id is put at the front of its pattern's list)
AddPatterns_Prepend(id, pattern) ==
  [p \in DOMAIN patterns \cup {pattern} |->
     IF p = pattern
     THEN (IF pattern \in DOMAIN patterns THEN <<id>> \o patterns[pattern] ELSE <<id>>)
     ELSE patterns[p]]

AddPatterns(id, pattern) ==
  [p \in DOMAIN patterns \cup {pattern} |->
     IF p = pattern
     THEN (IF pattern \in DOMAIN patterns THEN Append(patterns[pattern], id) ELSE <<id>>)
     ELSE patterns[p]]

\* (variant: Remove empties the subscription map)
RemoveSubscriptions_All(id) == <<>>

\* (variant: Remove takes the id out of the pattern index only)
RemoveSubscriptions_Keeps(id) == subscriptions

\* registry.Remove for an id that exists
RemoveSubscriptions(id) ==
  [i \in DOMAIN subscriptions \ {id} |-> subscriptions[i]]

\* (variant: a pattern whose id list became empty keeps its entry)
RemovePatterns_KeepsEmpty(id) ==
  LET pattern == subscriptions[id].pattern
  IN [p \in DOMAIN patterns |->
        IF p = pattern THEN RemoveFirst(patterns[p], id) ELSE patterns[p]]

RemovePatterns(id) ==
  LET pattern == subscriptions[id].pattern
      ids     == IF pattern \in DOMAIN patterns
                 THEN RemoveFirst(patterns[pattern], id) ELSE <<>>
  IN IF Len(ids) = 0
     THEN [p \in DOMAIN patterns \ {pattern} |-> patterns[p]]
     ELSE [p \in DOMAIN patterns |-> IF p = pattern THEN ids ELSE patterns[p]]

\* the handlers of the ids of one pattern, skipping ids already seen or unknown
RECURSIVE HandlersOf(_, _)
HandlersOf(ids, seen) ==
  IF ids = <<>> THEN <<>>
  ELSE IF Head(ids) \notin seen /\ Head(ids) \in DOMAIN subscriptions
       THEN <<subscriptions[Head(ids)].handler>>
              \o HandlersOf(Tail(ids), seen \cup {Head(ids)})
       ELSE HandlersOf(Tail(ids), seen)

RECURSIVE SeqToSet(_)
SeqToSet(s) == IF s = <<>> THEN {} ELSE {Head(s)} \cup SeqToSet(Tail(s))

\* (variant: the loop over the patterns ends at the first pattern that matches)
HandlersInOrder_FirstMatch(ps, topic, seen) ==
  LET M == { i \in 1..Len(ps) : Match(ps[i], topic) }
  IN IF M = {} THEN <<>>
     ELSE HandlersOf(patterns[ps[CHOOSE i \in M : \A j \in M : i <= j]], seen)

\* the results GetHandlers(topic) can return: the patterns map is ranged over
\* in any order, so every order of the matching patterns is possible
RECURSIVE HandlersInOrder(_, _, _)
HandlersInOrder(ps, topic, seen) ==
  IF ps = <<>> THEN <<>>
  ELSE IF Match(Head(ps), topic)
       THEN HandlersOf(patterns[Head(ps)], seen)
              \o HandlersInOrder(Tail(ps), topic, seen \cup SeqToSet(patterns[Head(ps)]))
       ELSE HandlersInOrder(Tail(ps), topic, seen)

RECURSIVE Orders(_)
Orders(S) ==
  IF S = {} THEN { <<>> }
  ELSE UNION { { <<x>> \o r : r \in Orders(S \ {x}) } : x \in S }

GetHandlers(topic) ==
  { HandlersInOrder(ps, topic, {}) : ps \in Orders(DOMAIN patterns) }

\* ------------------------------------------------------------------ bus.go
\* a handler's return value: "hFail" and "hFail2" fail, each with its own error
HandlerErr(h) ==
  CASE h = "hFail"  -> ErrHandler
    [] h = "hFail2" -> ErrHandler2
    [] OTHER        -> Nil

\* (variant: only the handlers that return an error are run)
Aggregate_FailingOnly(hs, lastErr) ==
  LET F == SelectSeq(hs, LAMBDA h : HandlerErr(h) # Nil)
  IN [err |-> IF F = <<>> THEN lastErr ELSE HandlerErr(F[Len(F)]),
      calls |-> Len(F),
      evs |-> [i \in 1..Len(F) |-> <<"handler", F[i]>>]]

\* (variant: the aggregate stops at the first handler that fails)
RECURSIVE Aggregate_ShortCircuit(_, _)
Aggregate_ShortCircuit(hs, lastErr) ==
  IF hs = <<>> THEN [err |-> lastErr, calls |-> 0, evs |-> <<>>]
  ELSE LET e == HandlerErr(Head(hs))
           r == IF e # Nil THEN [err |-> e, calls |-> 0, evs |-> <<>>]
                ELSE Aggregate_ShortCircuit(Tail(hs), lastErr)
       IN [err |-> r.err, calls |-> r.calls + 1,
           evs |-> << <<"handler", Head(hs)>> >> \o r.evs]

\* the aggregate handler built in processMessage / PublishSync: runs every
\* handler, keeps the last error; calls counts the handler invocations and
\* evs lists them in the order they are made
RECURSIVE Aggregate(_, _)
Aggregate(hs, lastErr) ==
  IF hs = <<>> THEN [err |-> lastErr, calls |-> 0, evs |-> <<>>]
  ELSE LET e == HandlerErr(Head(hs))
           r == Aggregate(Tail(hs), IF e # Nil THEN e ELSE lastErr)
       IN [err |-> r.err, calls |-> r.calls + 1,
           evs |-> << <<"handler", Head(hs)>> >> \o r.evs]

\* middleware values: "pass" calls next and returns its error, "block"
\* returns nil without calling next, "fail" returns an error without calling
\* next; "m1" and "m2" log, call next, log again and return next's error;
\* "failAfter" calls next and returns an error of its own whatever next returned
Middlewares == { "pass", "block", "fail" }
Logging     == { "m1", "m2" }

\* (variant: every middleware calls next and returns what next returned)
ApplyMiddleware_Transparent(m, next) == next

ApplyMiddleware(m, next) ==
  CASE m = "pass"  -> next
    [] m = "block" -> [err |-> Nil, calls |-> 0, evs |-> <<>>]
    [] m = "fail"  -> [err |-> ErrHandler, calls |-> 0, evs |-> <<>>]
    [] m = "failAfter" -> [next EXCEPT !.err = ErrHandler]
    [] m \in Logging ->
         [next EXCEPT !.evs = << <<"before", m>> >> \o @ \o << <<"after", m>> >>]

\* wrapWithMiddleware: for i := len-1 down to 0, handler = middleware[i](handler)
RECURSIVE WrapFrom(_, _, _)
WrapFrom(mws, i, handler) ==
  IF i < 1 THEN handler
  ELSE WrapFrom(mws, i - 1, ApplyMiddleware(mws[i], handler))

\* (variant: the loop runs upwards, so the middleware registered last is outermost)
RECURSIVE wrapWithMiddleware_Upwards(_, _)
wrapWithMiddleware_Upwards(mws, handler) ==
  IF mws = <<>> THEN handler
  ELSE wrapWithMiddleware_Upwards(Tail(mws), ApplyMiddleware(Head(mws), handler))

wrapWithMiddleware(mws, handler) == WrapFrom(mws, Len(mws), handler)

\* (variant: the chain is the one that existed when the message was published)
ChainAt_Publish(id) == SubSeq(middleware, 1, msgs[id].born)

\* the middleware list a dispatch of message id is wrapped in: b.middleware
\* as it is when wrapWithMiddleware runs
ChainAt(id) == middleware

\* (variant: the publishing calls release b.mu before their select)
RLocked_Released == { c \in Clients : pc[c] \in {"sync"} }

\* (variant: Subscribe releases b.mu before it calls registry.Add)
RLocked_NotInAdd == { c \in Clients : pc[c] \in {"select", "parked", "sync"} }

\* b.mu is read-locked by the clients inside Publish, PublishWithPriority,
\* PublishSync and Subscribe (where Subscribe is one step it locks and
\* unlocks within the step)
RLocked == { c \in Clients : pc[c] \in {"select", "parked", "sync", "add"} }


\* (variant: a failed envelope is always sent again)
RetryAllowed_Always(retries) == TRUE

\* (variant: the counter is compared with <=, one attempt too many)
RetryAllowed_OffByOne(retries) == retries <= maxRetries

\* the retry test of handleError, on the incremented counter
RetryAllowed(retries) == retries < maxRetries

\* (variant: Publish does not test the closed flag)
PublishRefused_Never == FALSE

\* the closed-flag tests of Publish, PublishSync, PublishWithPriority, Subscribe
PublishRefused   == closed
SyncRefused      == closed
PriorityRefused  == closed
SubscribeRefused == closed
\* (variant: Close does not test the closed flag)
CloseRefused_Never == FALSE

\* the closed-flag test of Close
CloseRefused     == closed

\* (variant: Close does not wait for the workers)
WorkersDone_NoWait == TRUE

\* wg.Wait in Close returns once every worker has called wg.Done
WorkersDone == \A w \in Workers : wpc[w] = "exited"

\* a send on the channel can complete at once: the buffer has room
CanSend == Len(queue) < qcap

\* (variant: an envelope sent on the channel goes to the front of the buffer)
Enqueue_AtFront(q, env) == <<env>> \o q

\* (variant: the buffer is kept ordered by priority, the highest first, and
\* by arrival within a priority)
Enqueue_ByPriority(q, env) ==
  LET n == Cardinality({ i \in 1..Len(q) : q[i].priority >= env.priority })
  IN SubSeq(q, 1, n) \o <<env>> \o SubSeq(q, n + 1, Len(q))

\* b.queue <- env: the channel's buffer is first in, first out
Enqueue(q, env) == Append(q, env)

SetMsg(id, f, v) == [msgs EXCEPT ![id] = [@ EXCEPT ![f] = v]]
NewMsg(id, topic, status) ==
  [i \in DOMAIN msgs \cup {id} |->
     IF i = id THEN [topic |-> topic, status |-> status, attempts |-> 0,
                     calls |-> 0, dlq |-> 0, dlqGot |-> <<>>, evs |-> <<>>,
                     ahead |-> FALSE,
                     born |-> IF traced THEN Len(middleware) ELSE 0,
                     peers |-> IF traced
                               THEN Cardinality({ c \in Clients : pc[c] = "sync" })
                               ELSE 0]
     ELSE msgs[i]]

IsWorker(t) == t[1] = "w"
Me(c) == <<"c", c>>
Wk(w) == <<"w", w>>

\* the two read-write mutexes: bus.mu and subscriptionRegistry.mu
BusMu == "b.mu"
RegMu == "registry.mu"

\* the lock operations of goroutine t, as <<goroutine, operation, mutex>>
RLockBus(t)   == <<t, "RLock", BusMu>>
RUnlockBus(t) == <<t, "RUnlock", BusMu>>
LockBus(t)    == <<t, "Lock", BusMu>>
UnlockBus(t)  == <<t, "Unlock", BusMu>>

\* registry.GetHandlers and the lookup of bus.unsubscribe: RLock, deferred RUnlock
GetHandlersLocks(t) == << <<t, "RLock", RegMu>>, <<t, "RUnlock", RegMu>> >>
LookupLocks(t)      == << <<t, "RLock", RegMu>>, <<t, "RUnlock", RegMu>> >>

\* registry.Add past its argument checks, registry.Clear: Lock, deferred Unlock
AddLocks(t)   == << <<t, "Lock", RegMu>>, <<t, "Unlock", RegMu>> >>
ClearLocks(t) == << <<t, "Lock", RegMu>>, <<t, "Unlock", RegMu>> >>

\* (variant: Remove calls back into the bus, which takes b.mu, before it unlocks)
RemoveLocks_CallsBus(t) ==
  << <<t, "Lock", RegMu>>, RLockBus(t), RUnlockBus(t), <<t, "Unlock", RegMu>> >>

\* registry.Remove: Lock, deferred Unlock
RemoveLocks(t) == << <<t, "Lock", RegMu>>, <<t, "Unlock", RegMu>> >>

\* the record of the step's lock operations, kept when the log is on
NoLocks == [on |-> FALSE, evs |-> <<>>]
Locked(evs) == [locks EXCEPT !.evs = IF locks.on THEN evs ELSE <<>>]

\* New, apart from the options: the bus is open, the queue and the registry
\* are empty, the workers are started
Started ==
  /\ closed = FALSE
  /\ middleware = <<>>
  /\ queue = <<>>
  /\ qclosed = FALSE
  /\ sendq = <<>>
  /\ subscriptions = <<>>
  /\ patterns = <<>>
  /\ wpc = [w \in 1..workers |-> "recv"]
  /\ wenv = [w \in 1..workers |-> NoEnv]
  /\ whandlers = [w \in 1..workers |-> <<>>]
  /\ pc = [c \in Clients |-> "idle"]
  /\ last = [op |-> "none", ret |-> "none"]
  /\ nextMsg = 0
  /\ nextSub = 0
  /\ msgs = <<>>
  /\ panicked = NoPanic
  /\ closeReturned = FALSE
  /\ notified = NoNotes

\* ... and no call has been made
Fresh ==
  /\ Started
  /\ arg = [c \in Clients |-> NoArg]

Init ==
  /\ workers \in 1..MaxWorkers
  /\ maxRetries \in 0..MaxMaxRetries
  /\ dlqHandler \in DlqHandlers
  /\ qcap = QueueCap
  /\ observer = FALSE
  /\ traced = FALSE
  /\ locks = NoLocks
  /\ callsLeft = MaxCalls
  /\ Fresh

Running == panicked = NoPanic

\* a client may start a call; idle clients are interchangeable, so the next
\* call is made by the first of them
CanCall(c) ==
  /\ Running
  /\ pc[c] = "idle"
  /\ callsLeft > 0
  /\ \A d \in Clients : d < c => pc[d] # "idle"

\* the call of client c returns r
Return(c, o, r) ==
  /\ pc' = [pc EXCEPT ![c] = "idle"]
  /\ arg' = [arg EXCEPT ![c] = NoArg]
  /\ last' = [op |-> o, ret |-> r]

\* ---------------------------------------------------------------- Publish
\* Publish up to its select: RLock, closed test, NewMessage, the envelope
Publish(c, topic, ctx) ==
  /\ CanCall(c)
  /\ callsLeft' = callsLeft - 1
  /\ IF PublishRefused
     THEN /\ Return(c, "Publish", ErrBusClosed)
          /\ UNCHANGED << nextMsg, msgs, notified >>
     ELSE /\ nextMsg' = nextMsg + 1
          /\ notified' = Notify("publish")
          /\ msgs' = NewMsg(nextMsg + 1, topic, "created")
          /\ pc' = [pc EXCEPT ![c] = "select"]
          /\ arg' = [arg EXCEPT ![c] =
                      [k |-> "Publish", ctx |-> ctx,
                       env |-> [id |-> nextMsg + 1, topic |-> topic, retries |-> 0,
                                priority |-> PriorityNormal]]]
          /\ UNCHANGED last
  /\ UNCHANGED << cfgVars, closed, middleware, queue, qclosed, sendq, regVars,
                  workVars, nextSub, panicked, closeReturned >>
  /\ locks' = Locked(<<RLockBus(Me(c))>> \o (IF PublishRefused THEN <<RUnlockBus(Me(c))>> ELSE <<>>))

\* (variant: PublishWithPriority does not test the context before its select)
CtxErr_Ignored(ctx) == FALSE

\* ctx.Err() != nil: the context is already cancelled
CtxErr(ctx) == ctx = "cancelled"

\* PublishWithPriority up to its select: as Publish, and ctx.Err() is tested first
PublishWithPriority(c, topic, ctx, priority) ==
  /\ CanCall(c)
  /\ callsLeft' = callsLeft - 1
  /\ IF PriorityRefused
     THEN /\ Return(c, "PublishWithPriority", ErrBusClosed)
          /\ UNCHANGED << nextMsg, msgs, notified >>
     ELSE IF CtxErr(ctx)
     THEN /\ Return(c, "PublishWithPriority", ErrCanceled)
          /\ UNCHANGED << nextMsg, msgs, notified >>
     ELSE /\ nextMsg' = nextMsg + 1
          /\ notified' = Notify("publish")
          /\ msgs' = NewMsg(nextMsg + 1, topic, "created")
          /\ pc' = [pc EXCEPT ![c] = "select"]
          /\ arg' = [arg EXCEPT ![c] =
                      [k |-> "PublishWithPriority", ctx |-> ctx,
                       env |-> [id |-> nextMsg + 1, topic |-> topic, retries |-> 0,
                                priority |-> priority]]]
          /\ UNCHANGED last
  /\ UNCHANGED << cfgVars, closed, middleware, queue, qclosed, sendq, regVars,
                  workVars, nextSub, panicked, closeReturned >>
  /\ locks' = Locked(<<RLockBus(Me(c))>>
                       \o (IF PriorityRefused \/ CtxErr(ctx) THEN <<RUnlockBus(Me(c))>> ELSE <<>>))

\* the select of Publish / PublishWithPriority takes its send case
SelectSend(c) ==
  /\ Running
  /\ pc[c] = "select"
  /\ qclosed \/ CanSend
  /\ IF qclosed
     THEN \* send on a closed channel
          /\ panicked' = PanicPublishSend
          /\ UNCHANGED << queue, msgs, cliVars >>
     ELSE /\ queue' = Enqueue(queue, arg[c].env)
          /\ msgs' = SetMsg(arg[c].env.id, "status", "accepted")
          /\ Return(c, arg[c].k, Nil)
          /\ UNCHANGED panicked
  /\ UNCHANGED << cfgVars, closed, middleware, qclosed, sendq, regVars, workVars,
                  idVars, callsLeft, closeReturned, notified >>
  /\ locks' = Locked(IF qclosed THEN <<>> ELSE <<RUnlockBus(Me(c))>>)

\* (variant: the ctx.Done case is taken although the envelope was sent too)
SelectDone_AlsoSends(c) ==
  /\ Running
  /\ pc[c] = "select"
  /\ arg[c].ctx = "cancelled"
  /\ queue' = Enqueue(queue, arg[c].env)
  /\ msgs' = SetMsg(arg[c].env.id, "status", "Cancelled")
  /\ Return(c, arg[c].k, ErrCanceled)
  /\ UNCHANGED << cfgVars, closed, middleware, qclosed, sendq, regVars,
                  workVars, idVars, callsLeft, panicked, closeReturned, notified >>
  /\ locks' = Locked(<<RUnlockBus(Me(c))>>)

\* the select takes its ctx.Done case
SelectDone(c) ==
  /\ Running
  /\ pc[c] = "select"
  /\ arg[c].ctx = "cancelled"
  /\ msgs' = SetMsg(arg[c].env.id, "status", "Cancelled")
  /\ Return(c, arg[c].k, ErrCanceled)
  /\ UNCHANGED << cfgVars, closed, middleware, queue, qclosed, sendq, regVars,
                  workVars, idVars, callsLeft, panicked, closeReturned, notified >>
  /\ locks' = Locked(<<RUnlockBus(Me(c))>>)

\* no case of the select is ready: the goroutine parks on the channel
SelectPark(c) ==
  /\ Running
  /\ pc[c] = "select"
  /\ ~(qclosed \/ CanSend)
  /\ arg[c].ctx # "cancelled"
  /\ pc' = [pc EXCEPT ![c] = "parked"]
  /\ sendq' = Append(sendq, Me(c))
  /\ UNCHANGED << cfgVars, closed, middleware, queue, qclosed, regVars, workVars,
                  arg, last, idVars, callsLeft, msgs, panicked, closeReturned, notified >>
  /\ locks' = Locked(<<>>)

\* the caller's context is cancelled while its call is in the select; a parked
\* goroutine is woken with the ctx.Done case and returns ctx.Err()
CancelCtx(c) ==
  /\ Running
  /\ pc[c] \in {"select", "parked"}
  /\ arg[c].ctx = "live"
  /\ IF pc[c] = "parked"
     THEN /\ sendq' = RemoveFirst(sendq, Me(c))
          /\ msgs' = SetMsg(arg[c].env.id, "status", "Cancelled")
          /\ Return(c, arg[c].k, ErrCanceled)
     ELSE /\ arg' = [arg EXCEPT ![c].ctx = "cancelled"]
          /\ UNCHANGED << sendq, msgs, pc, last >>
  /\ UNCHANGED << cfgVars, closed, middleware, queue, qclosed, regVars, workVars,
                  idVars, callsLeft, panicked, closeReturned, notified >>
  /\ locks' = Locked(IF pc[c] = "parked" THEN <<RUnlockBus(Me(c))>> ELSE <<>>)

\* ----------------------------------------------------------------- workers
\* the envelope a parked goroutine is sending
Sending(t) == IF IsWorker(t) THEN wenv[t[2]] ELSE arg[t[2]].env

\* (variant: a receive leaves the envelope it returns in the buffer)
AfterRecv_Peek(q) == q

\* env := <-b.queue (the range loop): the buffer without its first envelope
AfterRecv(q) == Tail(q)

\* history: the head of the buffer is received while an envelope of higher
\* priority waits behind it in the buffer
Dequeued(ms) ==
  IF traced /\ \E i \in 2..Len(queue) : queue[i].priority > Head(queue).priority
  THEN [ms EXCEPT ![Head(queue).id].ahead = TRUE]
  ELSE ms

\* worker: for env := range b.queue receives the head of the buffer; the first
\* parked sender, if any, has its envelope moved into the buffer and resumes
\* after its send. The workers waiting in the receive are interchangeable: the
\* first of them takes the envelope.
WorkerRecv(w) ==
  /\ Running
  /\ wpc[w] = "recv"
  /\ \A v \in Workers : v < w => wpc[v] # "recv"
  /\ queue # <<>>
  /\ IF sendq = <<>>
     THEN /\ queue' = AfterRecv(queue)
          /\ wpc' = [wpc EXCEPT ![w] = "resolve"]
          /\ wenv' = [wenv EXCEPT ![w] = Head(queue)]
          /\ msgs' = Dequeued(msgs)
          /\ UNCHANGED << sendq, cliVars >>
     ELSE LET t == Head(sendq) IN
          /\ queue' = Enqueue(AfterRecv(queue), Sending(t))
          /\ sendq' = Tail(sendq)
          /\ IF IsWorker(t)
             THEN /\ wpc' = [wpc EXCEPT ![w] = "resolve", ![t[2]] = "recv"]
                  /\ wenv' = [wenv EXCEPT ![w] = Head(queue), ![t[2]] = NoEnv]
                  /\ msgs' = Dequeued(msgs)
                  /\ UNCHANGED cliVars
             ELSE /\ wpc' = [wpc EXCEPT ![w] = "resolve"]
                  /\ wenv' = [wenv EXCEPT ![w] = Head(queue)]
                  /\ msgs' = Dequeued(SetMsg(arg[t[2]].env.id, "status", "accepted"))
                  /\ Return(t[2], arg[t[2]].k, Nil)
  /\ UNCHANGED << cfgVars, closed, middleware, qclosed, regVars, whandlers,
                  idVars, callsLeft, panicked, closeReturned, notified >>
  /\ locks' = Locked(IF sendq # <<>> /\ ~IsWorker(Head(sendq))
                     THEN <<RUnlockBus(Head(sendq))>> ELSE <<>>)

\* worker: the range loop ends when the channel is closed and drained; wg.Done
WorkerExit(w) ==
  /\ Running
  /\ wpc[w] = "recv"
  /\ queue = <<>>
  /\ qclosed
  /\ wpc' = [wpc EXCEPT ![w] = "exited"]
  /\ UNCHANGED << cfgVars, closed, middleware, queue, qclosed, sendq, regVars,
                  wenv, whandlers, cliVars, idVars, callsLeft, msgs, panicked,
                  closeReturned, notified >>
  /\ locks' = Locked(<<>>)

\* (variant: processMessage goes on with an empty handler list)
NoHandlers_Never(hs) == FALSE

\* if len(handlers) == 0 { return }
NoHandlers(hs) == Len(hs) = 0

\* processMessage, first part: GetHandlers; no handler: the message is dropped
WorkerResolve(w) ==
  /\ Running
  /\ wpc[w] = "resolve"
  /\ \E hs \in GetHandlers(wenv[w].topic) :
       IF NoHandlers(hs)
       THEN /\ wpc' = [wpc EXCEPT ![w] = "recv"]
            /\ wenv' = [wenv EXCEPT ![w] = NoEnv]
            /\ msgs' = SetMsg(wenv[w].id, "status", "NoMatch")
            /\ UNCHANGED whandlers
       ELSE /\ wpc' = [wpc EXCEPT ![w] = "invoke"]
            /\ whandlers' = [whandlers EXCEPT ![w] = hs]
            /\ UNCHANGED << wenv, msgs >>
  /\ UNCHANGED << cfgVars, closed, middleware, queue, qclosed, sendq, regVars,
                  cliVars, idVars, callsLeft, panicked, closeReturned, notified >>
  /\ locks' = Locked(GetHandlersLocks(Wk(w)))

\* (variant: the dead-letter handler is given a new message without the topic)
DlqCall_NewMessage(env) ==
  [id |-> env.id, topic |-> <<>>, err |-> HandlerErr(dlqHandler)]

\* _ = b.dlqHandler.Handle(ctx, env.msg): the message handed over is the
\* envelope's, the one Publish made (its id and topic stand for it, the payload
\* is a field of the same immutable value); err is what the call returns
\* and handleError discards
DlqCall(env) ==
  [id |-> env.id, topic |-> env.topic, err |-> HandlerErr(dlqHandler)]

\* processMessage, second part: the aggregate handler wrapped in the current
\* middleware is invoked; on an error handleError increments retries and
\* either sends the envelope on the queue again or hands the message to the
\* dead-letter handler
WorkerInvoke(w) ==
  /\ Running
  /\ wpc[w] = "invoke"
  /\ LET env == wenv[w]
         r   == wrapWithMiddleware(ChainAt(env.id), Aggregate(whandlers[w], Nil))
         m   == [msgs[env.id] EXCEPT !.attempts = @ + 1, !.calls = @ + r.calls,
                                     !.evs = IF traced THEN r.evs ELSE @]
         again == [env EXCEPT !.retries = @ + 1]
     IN
     /\ whandlers' = [whandlers EXCEPT ![w] = <<>>]
     /\ notified' = Notify("processed")
     /\ IF r.err = Nil
        THEN /\ msgs' = [msgs EXCEPT ![env.id] = [m EXCEPT !.status = "Success"]]
             /\ wpc' = [wpc EXCEPT ![w] = "recv"]
             /\ wenv' = [wenv EXCEPT ![w] = NoEnv]
             /\ UNCHANGED << queue, sendq, panicked >>
        ELSE IF RetryAllowed(again.retries)
        THEN /\ msgs' = [msgs EXCEPT ![env.id] = m]
             /\ IF qclosed
                THEN \* send on a closed channel
                     /\ panicked' = PanicRetrySend
                     /\ wenv' = [wenv EXCEPT ![w] = again]
                     /\ UNCHANGED << queue, sendq, wpc >>
                ELSE IF CanSend
                THEN /\ queue' = Enqueue(queue, again)
                     /\ wpc' = [wpc EXCEPT ![w] = "recv"]
                     /\ wenv' = [wenv EXCEPT ![w] = NoEnv]
                     /\ UNCHANGED << sendq, panicked >>
                ELSE /\ sendq' = Append(sendq, Wk(w))
                     /\ wpc' = [wpc EXCEPT ![w] = "parked"]
                     /\ wenv' = [wenv EXCEPT ![w] = again]
                     /\ UNCHANGED << queue, panicked >>
        ELSE /\ msgs' = [msgs EXCEPT ![env.id] =
                           IF dlqHandler # NilHandler
                           THEN [m EXCEPT !.status = "DeadLettered", !.dlq = @ + 1,
                                          !.dlqGot = IF traced
                                                     THEN Append(@, DlqCall(env))
                                                     ELSE @]
                           ELSE [m EXCEPT !.status = "Dropped"]]
             /\ wpc' = [wpc EXCEPT ![w] = "recv"]
             /\ wenv' = [wenv EXCEPT ![w] = NoEnv]
             /\ UNCHANGED << queue, sendq, panicked >>
  /\ UNCHANGED << cfgVars, closed, middleware, qclosed, regVars, cliVars,
                  idVars, callsLeft, closeReturned >>
  /\ locks' = Locked(<<>>)

\* ------------------------------------------------------------------- Close
\* Close is called; b.mu.Lock() waits for the readers
CloseCall(c) ==
  /\ CanCall(c)
  /\ callsLeft' = callsLeft - 1
  /\ pc' = [pc EXCEPT ![c] = "lock"]
  /\ arg' = [arg EXCEPT ![c] = [k |-> "Close"]]
  /\ UNCHANGED << cfgVars, closed, middleware, queue, qclosed, sendq, regVars,
                  workVars, last, idVars, msgs, panicked, closeReturned, notified >>
  /\ locks' = Locked(<<>>)

\* Close under b.mu: the closed test and the flag
CloseLock(c) ==
  /\ Running
  /\ pc[c] = "lock"
  /\ RLocked = {}
  /\ IF CloseRefused
     THEN /\ Return(c, "Close", ErrAlreadyClosed)
          /\ UNCHANGED closed
     ELSE /\ closed' = TRUE
          /\ pc' = [pc EXCEPT ![c] = "closeq"]
          /\ UNCHANGED << arg, last >>
  /\ UNCHANGED << cfgVars, middleware, queue, qclosed, sendq, regVars, workVars,
                  idVars, callsLeft, msgs, panicked, closeReturned, notified >>
  /\ locks' = Locked(<<LockBus(Me(c)), UnlockBus(Me(c))>>)

\* (variant: the registry is cleared when the queue is closed, before the wait)
CloseQueue_ClearsFirst(c) ==
  /\ Running
  /\ pc[c] = "closeq"
  /\ qclosed' = TRUE
  /\ panicked' = IF qclosed THEN PanicCloseClosed
                 ELSE IF sendq # <<>> THEN PanicRetrySend
                 ELSE NoPanic
  /\ subscriptions' = <<>>
  /\ patterns' = <<>>
  /\ pc' = [pc EXCEPT ![c] = "wait"]
  /\ UNCHANGED << cfgVars, closed, middleware, queue, sendq, workVars,
                  arg, last, idVars, callsLeft, msgs, closeReturned, notified >>
  /\ locks' = Locked(ClearLocks(Me(c)))

\* close(b.queue): closing a closed channel panics, and so does every
\* goroutine parked on a send to it
CloseQueue(c) ==
  /\ Running
  /\ pc[c] = "closeq"
  /\ qclosed' = TRUE
  /\ panicked' = IF qclosed THEN PanicCloseClosed
                 ELSE IF sendq # <<>> THEN PanicRetrySend
                 ELSE NoPanic
  /\ pc' = [pc EXCEPT ![c] = "wait"]
  /\ UNCHANGED << cfgVars, closed, middleware, queue, sendq, regVars, workVars,
                  arg, last, idVars, callsLeft, msgs, closeReturned, notified >>
  /\ locks' = Locked(<<>>)

\* b.wg.Wait() returns, registry.Clear(), Close returns nil
CloseFinish(c) ==
  /\ Running
  /\ pc[c] = "wait"
  /\ WorkersDone
  /\ subscriptions' = <<>>
  /\ patterns' = <<>>
  /\ closeReturned' = TRUE
  /\ notified' = Notify("close")
  /\ Return(c, "Close", Nil)
  /\ UNCHANGED << cfgVars, closed, middleware, queue, qclosed, sendq, workVars,
                  idVars, callsLeft, msgs, panicked >>
  /\ locks' = Locked(ClearLocks(Me(c)))

\* --------------------------------------------------------------------- Use
\* the workers whose next step is wrapWithMiddleware in processMessage: they
\* read b.middleware (its length, then each element) without holding b.mu
RacingReaders == { w \in Workers : wpc[w] = "invoke" }

\* Use appends under b.mu.Lock(), which keeps out the callers holding the
\* read lock but not the workers: a worker about to read b.middleware may read
\* it before the write, after it or during it, and a read made during the
\* write (a data race) may see the old slice, the new one or a torn slice
\* header, on which wrapWithMiddleware panics
Use(c, m) ==
  /\ CanCall(c)
  /\ RLocked = {}
  /\ callsLeft' = callsLeft - 1
  /\ middleware' = Append(middleware, m)
  /\ panicked' \in (IF RacingReaders # {} THEN {NoPanic, PanicWrapRace} ELSE {NoPanic})
  /\ Return(c, "Use", "none")
  /\ UNCHANGED << cfgVars, closed, queue, qclosed, sendq, regVars, workVars,
                  idVars, msgs, closeReturned, notified >>
  /\ locks' = Locked(<<LockBus(Me(c)), UnlockBus(Me(c))>>)

\* --------------------------------------------------- Subscribe, Unsubscribe
\* Subscribe: the closed test under b.mu.RLock(), then registry.Add
Subscribe(c, pattern, handler) ==
  /\ CanCall(c)
  /\ callsLeft' = callsLeft - 1
  /\ IF SubscribeRefused
     THEN /\ Return(c, "Subscribe", ErrBusClosed)
          /\ UNCHANGED << regVars, nextSub, notified >>
     ELSE IF pattern = <<>>
     THEN /\ Return(c, "Subscribe", ErrInvalidPattern)
          /\ UNCHANGED << regVars, nextSub, notified >>
     ELSE IF handler = NilHandler
     THEN /\ Return(c, "Subscribe", ErrInvalidHandler)
          /\ UNCHANGED << regVars, nextSub, notified >>
     ELSE /\ nextSub' = nextSub + 1
          /\ subscriptions' = AddSubscriptions(nextSub + 1, pattern, handler)
          /\ patterns' = AddPatterns(nextSub + 1, pattern)
          /\ notified' = Notify("subscribe")
          /\ Return(c, "Subscribe", Nil)
  /\ UNCHANGED << cfgVars, closed, middleware, queue, qclosed, sendq, workVars,
                  nextMsg, msgs, panicked, closeReturned >>
  /\ locks' = Locked(<<RLockBus(Me(c))>>
                       \o (IF SubscribeRefused \/ pattern = <<>> \/ handler = NilHandler
                           THEN <<>> ELSE AddLocks(Me(c)))
                       \o <<RUnlockBus(Me(c))>>)

\* Subscribe in two steps. First b.mu.RLock() and the closed test ...
SubscribeCheck(c, pattern, handler) ==
  /\ CanCall(c)
  /\ callsLeft' = callsLeft - 1
  /\ IF SubscribeRefused
     THEN /\ Return(c, "Subscribe", ErrBusClosed)
     ELSE /\ pc' = [pc EXCEPT ![c] = "add"]
          /\ arg' = [arg EXCEPT ![c] =
                      [k |-> "Subscribe", pattern |-> pattern, handler |-> handler]]
          /\ UNCHANGED last
  /\ UNCHANGED << cfgVars, closed, middleware, queue, qclosed, sendq, regVars,
                  workVars, idVars, msgs, panicked, closeReturned, notified >>
  /\ locks' = Locked(<<RLockBus(Me(c))>>
                       \o (IF SubscribeRefused THEN <<RUnlockBus(Me(c))>> ELSE <<>>))

\* ... then registry.Add, NotifySubscribe and the deferred b.mu.RUnlock()
SubscribeAdd(c) ==
  /\ Running
  /\ pc[c] = "add"
  /\ LET pattern == arg[c].pattern
         handler == arg[c].handler
     IN IF pattern = <<>>
        THEN /\ Return(c, "Subscribe", ErrInvalidPattern)
             /\ UNCHANGED << regVars, nextSub, notified >>
        ELSE IF handler = NilHandler
        THEN /\ Return(c, "Subscribe", ErrInvalidHandler)
             /\ UNCHANGED << regVars, nextSub, notified >>
        ELSE /\ nextSub' = nextSub + 1
             /\ subscriptions' = AddSubscriptions(nextSub + 1, pattern, handler)
             /\ patterns' = AddPatterns(nextSub + 1, pattern)
             /\ notified' = Notify("subscribe")
             /\ Return(c, "Subscribe", Nil)
  /\ UNCHANGED << cfgVars, closed, middleware, queue, qclosed, sendq, workVars,
                  nextMsg, callsLeft, msgs, panicked, closeReturned >>
  /\ locks' = Locked((IF arg[c].pattern = <<>> \/ arg[c].handler = NilHandler
                       THEN <<>> ELSE AddLocks(Me(c)))
                       \o <<RUnlockBus(Me(c))>>)

\* the ids of the subscriptions handed out so far
IssuedSubs == 1..nextSub

\* subscription.Unsubscribe -> bus.unsubscribe -> registry.Remove, in one
\* step: the lookup and the removal find the same registry
Unsubscribe(c, id) ==
  /\ CanCall(c)
  /\ callsLeft' = callsLeft - 1
  /\ IF id \notin DOMAIN subscriptions
     THEN /\ Return(c, "Unsubscribe", ErrNotFound)
          /\ UNCHANGED << regVars, notified >>
     ELSE /\ subscriptions' = RemoveSubscriptions(id)
          /\ patterns' = RemovePatterns(id)
          /\ notified' = Notify("unsubscribe")
          /\ Return(c, "Unsubscribe", Nil)
  /\ UNCHANGED << cfgVars, closed, middleware, queue, qclosed, sendq, workVars,
                  idVars, msgs, panicked, closeReturned >>
  /\ locks' = Locked(LookupLocks(Me(c)) \o RemoveLocks(Me(c)))

\* bus.unsubscribe in its two critical sections. First the subscription is
\* looked up under the registry's read lock (b.mu is not taken) ...
UnsubscribeRead(c, id) ==
  /\ CanCall(c)
  /\ callsLeft' = callsLeft - 1
  /\ pc' = [pc EXCEPT ![c] = "unsub"]
  /\ arg' = [arg EXCEPT ![c] =
              [k |-> "Unsubscribe", id |-> id, exists |-> id \in DOMAIN subscriptions]]
  /\ UNCHANGED << cfgVars, closed, middleware, queue, qclosed, sendq, regVars,
                  workVars, last, idVars, msgs, panicked, closeReturned, notified >>
  /\ locks' = Locked(LookupLocks(Me(c)))

\* (variant: the observers are told whenever the lookup had found the subscription)
UnsubscribeNotifies_Exists(c, err) == arg[c].exists

\* if err == nil && exists
UnsubscribeNotifies(c, err) == err = Nil /\ arg[c].exists

\* ... then registry.Remove runs under the registry's write lock and the
\* observers are told of a removal that succeeded
UnsubscribeRemove(c) ==
  /\ Running
  /\ pc[c] = "unsub"
  /\ LET id  == arg[c].id
         err == IF id \in DOMAIN subscriptions THEN Nil ELSE ErrNotFound
     IN /\ IF err = Nil
           THEN /\ subscriptions' = RemoveSubscriptions(id)
                /\ patterns' = RemovePatterns(id)
           ELSE UNCHANGED regVars
        /\ notified' = IF UnsubscribeNotifies(c, err)
                       THEN Notify("unsubscribe") ELSE notified
        /\ Return(c, "Unsubscribe", err)
  /\ UNCHANGED << cfgVars, closed, middleware, queue, qclosed, sendq, workVars,
                  idVars, callsLeft, msgs, panicked, closeReturned >>
  /\ locks' = Locked(RemoveLocks(Me(c)))

\* ------------------------------------------------------------- PublishSync
\* PublishSync up to the handler call: RLock, closed test, NewMessage, GetHandlers
PublishSync(c, topic) ==
  /\ CanCall(c)
  /\ callsLeft' = callsLeft - 1
  /\ IF SyncRefused
     THEN /\ Return(c, "PublishSync", ErrBusClosed)
          /\ UNCHANGED << nextMsg, msgs, notified >>
     ELSE /\ nextMsg' = nextMsg + 1
          /\ notified' = Notify("publish")
          /\ \E hs \in GetHandlers(topic) :
               IF Len(hs) = 0
               THEN /\ msgs' = NewMsg(nextMsg + 1, topic, "SyncDone")
                    /\ Return(c, "PublishSync", Nil)
               ELSE /\ msgs' = NewMsg(nextMsg + 1, topic, "Sync")
                    /\ pc' = [pc EXCEPT ![c] = "sync"]
                    /\ arg' = [arg EXCEPT ![c] =
                                [k |-> "PublishSync", id |-> nextMsg + 1, handlers |-> hs]]
                    /\ UNCHANGED last
  /\ UNCHANGED << cfgVars, closed, middleware, queue, qclosed, sendq, regVars,
                  workVars, nextSub, panicked, closeReturned >>
  /\ locks' = Locked(<<RLockBus(Me(c))>>
                       \o (IF SyncRefused THEN <<>> ELSE GetHandlersLocks(Me(c)))
                       \o (IF pc'[c] = "sync" THEN <<>> ELSE <<RUnlockBus(Me(c))>>))

\* (variant: PublishSync puts the message of a failed call on the queue)
SyncInvoke_Enqueues(c) ==
  /\ Running
  /\ pc[c] = "sync"
  /\ LET r == wrapWithMiddleware(ChainAt(arg[c].id), Aggregate(arg[c].handlers, Nil)) IN
     /\ msgs' = [msgs EXCEPT ![arg[c].id] =
                   [@ EXCEPT !.status = "SyncDone", !.attempts = @ + 1,
                             !.calls = @ + r.calls,
                             !.evs = IF traced THEN r.evs ELSE @]]
     /\ queue' = IF r.err # Nil /\ CanSend
                 THEN Enqueue(queue, [id |-> arg[c].id, topic |-> msgs[arg[c].id].topic,
                                      retries |-> 1, priority |-> PriorityNormal])
                 ELSE queue
     /\ notified' = Notify("processed")
     /\ Return(c, "PublishSync", r.err)
  /\ UNCHANGED << cfgVars, closed, middleware, qclosed, sendq, regVars,
                  workVars, idVars, callsLeft, panicked, closeReturned >>
  /\ locks' = Locked(<<RUnlockBus(Me(c))>>)

\* (variant: PublishSync returns nil without waiting for the handlers)
SyncInvoke_NoWait(c) ==
  /\ Running
  /\ pc[c] = "sync"
  /\ msgs' = SetMsg(arg[c].id, "status", "SyncDone")
  /\ Return(c, "PublishSync", Nil)
  /\ UNCHANGED << cfgVars, closed, middleware, queue, qclosed, sendq, regVars,
                  workVars, idVars, callsLeft, panicked, closeReturned, notified >>
  /\ locks' = Locked(<<RUnlockBus(Me(c))>>)

\* PublishSync: the wrapped aggregate handler runs on the caller's goroutine
\* and its error is returned
SyncInvoke(c) ==
  /\ Running
  /\ pc[c] = "sync"
  /\ LET r == wrapWithMiddleware(ChainAt(arg[c].id), Aggregate(arg[c].handlers, Nil)) IN
     /\ msgs' = [msgs EXCEPT ![arg[c].id] =
                   [@ EXCEPT !.status = "SyncDone", !.attempts = @ + 1,
                             !.calls = @ + r.calls,
                             !.evs = IF traced THEN r.evs ELSE @]]
     /\ notified' = Notify("processed")
     /\ Return(c, "PublishSync", r.err)
  /\ UNCHANGED << cfgVars, closed, middleware, queue, qclosed, sendq, regVars,
                  workVars, idVars, callsLeft, panicked, closeReturned >>
  /\ locks' = Locked(<<RUnlockBus(Me(c))>>)

\* ---------------------------------------------------------- specification
\* a context is live (it may be cancelled later, or never) or already cancelled
Contexts == { "live", "cancelled" }
PublishPriorities == { PriorityUrgent }

Next ==
  \/ \E c \in Clients, t \in Topics, x \in Contexts : Publish(c, t, x)
  \/ \E c \in Clients, t \in Topics, x \in Contexts, p \in PublishPriorities :
       PublishWithPriority(c, t, x, p)
  \/ \E c \in Clients : SelectSend(c)
  \/ \E c \in Clients : SelectDone(c)
  \/ \E c \in Clients : SelectPark(c)
  \/ \E c \in Clients : CancelCtx(c)
  \/ \E c \in Clients, t \in Topics : PublishSync(c, t)
  \/ \E c \in Clients : SyncInvoke(c)
  \/ \E c \in Clients, p \in Patterns, h \in Handlers \cup {NilHandler} :
       Subscribe(c, p, h)
  \/ \E c \in Clients, id \in IssuedSubs : Unsubscribe(c, id)
  \/ \E c \in Clients, m \in Middlewares : Use(c, m)
  \/ \E c \in Clients : CloseCall(c)
  \/ \E c \in Clients : CloseLock(c)
  \/ \E c \in Clients : CloseQueue(c)
  \/ \E c \in Clients : CloseFinish(c)
  \/ \E w \in Workers : WorkerRecv(w)
  \/ \E w \in Workers : WorkerExit(w)
  \/ \E w \in Workers : WorkerResolve(w)
  \/ \E w \in Workers : WorkerInvoke(w)

Spec == Init /\ [][Next]_vars

\* Scheduling: a goroutine that can take its next step eventually takes it.
\* Nothing obliges a caller to start a call or to cancel its context.
Fairness ==
  /\ \A c \in Clients :
       /\ WF_vars(SelectSend(c)) /\ WF_vars(SelectDone(c)) /\ WF_vars(SelectPark(c))
       /\ WF_vars(SyncInvoke(c))
       /\ WF_vars(CloseLock(c)) /\ WF_vars(CloseQueue(c)) /\ WF_vars(CloseFinish(c))
  /\ \A w \in 1..MaxWorkers :
       /\ WF_vars(w \in Workers /\ WorkerRecv(w))
       /\ WF_vars(w \in Workers /\ WorkerExit(w))
       /\ WF_vars(w \in Workers /\ WorkerResolve(w))
       /\ WF_vars(w \in Workers /\ WorkerInvoke(w))

FairSpec == Spec /\ Fairness

\* ------------------------------------------------- the middleware chain
\* The bus with one worker, an observer and logging handlers and middleware:
\* callers register middleware, subscribe handlers to one topic and publish
\* to it, synchronously and through the queue.
ChainCalls == 4
ChainHandlers    == { "hOk", "hFail", "hFail2" }
ChainMiddlewares == Logging \cup { "block" }

ChainInit ==
  /\ workers = 1
  /\ maxRetries \in 1..MaxMaxRetries
  /\ dlqHandler = NilHandler
  /\ qcap = QueueCap
  /\ observer = TRUE
  /\ traced = TRUE
  /\ locks = NoLocks
  /\ callsLeft = ChainCalls
  /\ Fresh

ChainNext ==
  \/ \E c \in Clients, t \in Topics : Publish(c, t, "live")
  \/ \E c \in Clients : SelectSend(c)
  \/ \E c \in Clients : SelectPark(c)
  \/ \E c \in Clients, t \in Topics : PublishSync(c, t)
  \/ \E c \in Clients : SyncInvoke(c)
  \/ \E c \in Clients, p \in Topics, h \in ChainHandlers : Subscribe(c, p, h)
  \/ \E c \in Clients, m \in ChainMiddlewares : Use(c, m)
  \/ \E w \in Workers : WorkerRecv(w)
  \/ \E w \in Workers : WorkerResolve(w)
  \/ \E w \in Workers : WorkerInvoke(w)

ChainSpec == ChainInit /\ [][ChainNext]_vars

\* =================================================================== claims
Max(a, b) == IF a > b THEN a ELSE b

\* the step starts a call (every call start takes one call from the budget)
StartsCall == callsLeft' = callsLeft - 1

\* the operation of the call the step starts
StartedOp ==
  IF pc' = pc THEN last'.op
  ELSE arg'[CHOOSE c \in Clients : pc'[c] # pc[c]].k

\* number of places of the queue that hold message id
RECURSIVE Occurrences(_, _)
Occurrences(q, id) ==
  IF q = <<>> THEN 0
  ELSE (IF Head(q).id = id THEN 1 ELSE 0) + Occurrences(Tail(q), id)

Terminal == { "Success", "DeadLettered", "Dropped", "NoMatch" }

\* C1: once Close has returned nil, every call of Publish, PublishSync,
\* PublishWithPriority and Subscribe returns the bus-closed error at once, and
\* the call changes neither the queue, nor the parked senders, nor the message
\* history (no handler runs), nor the registry.
C1_ClosedBusGuard ==
  [][ (closeReturned /\ StartsCall
         /\ StartedOp \in {"Publish", "PublishSync", "PublishWithPriority", "Subscribe"})
      => /\ pc' = pc
         /\ last'.ret = ErrBusClosed
         /\ queue' = queue /\ sendq' = sendq
         /\ msgs' = msgs
         /\ subscriptions' = subscriptions /\ patterns' = patterns ]_vars

C1_Witness ==
  closeReturned /\ last = [op |-> "Publish", ret |-> ErrBusClosed]

\* C2: a message is handed to the dead-letter handler at most once, it is
\* never dispatched more than max(1, maxRetries) times, and when it has been
\* dead-lettered it went through exactly max(1, maxRetries) dispatch attempts;
\* when the only subscription ever made is one always-failing handler and all
\* middleware passes through, that handler ran exactly max(1, maxRetries)
\* times for the message.
OneFailingHandler ==
  /\ IssuedSubs = DOMAIN subscriptions
  /\ Cardinality(DOMAIN subscriptions) = 1
  /\ \A i \in DOMAIN subscriptions : subscriptions[i].handler = "hFail"
  /\ \A i \in 1..Len(middleware) : middleware[i] = "pass"

C2_RetryBound ==
  \A id \in DOMAIN msgs :
    /\ msgs[id].dlq <= 1
    /\ msgs[id].dlq = 1 <=> msgs[id].status = "DeadLettered"
    /\ msgs[id].dlq = 1 => dlqHandler # NilHandler
    /\ msgs[id].attempts <= Max(1, maxRetries)
    /\ msgs[id].status = "DeadLettered" =>
         /\ msgs[id].attempts = Max(1, maxRetries)
         /\ OneFailingHandler => msgs[id].calls = Max(1, maxRetries)

C2_Witness ==
  \E id \in DOMAIN msgs :
    /\ maxRetries = 2
    /\ OneFailingHandler
    /\ msgs[id].status = "DeadLettered"
    /\ msgs[id].calls = 2

\* C3: no goroutine ever panics; in particular a worker never sends a failed
\* envelope on the queue after Close has closed it.
C3_NoFatalError == panicked = NoPanic

\* C4: when Close has returned nil the queue is empty, no sender is parked,
\* every worker has exited and holds no envelope, and every message that was
\* accepted has reached a terminal state.
C4_CloseDrains ==
  closeReturned =>
    /\ queue = <<>>
    /\ sendq = <<>>
    /\ \A w \in Workers : wpc[w] = "exited" /\ wenv[w] = NoEnv
    /\ \A id \in DOMAIN msgs :
         msgs[id].status \in Terminal \cup {"Cancelled", "SyncDone"}

C4_Witness ==
  /\ closeReturned
  /\ \E id \in DOMAIN msgs :
       msgs[id].status = "DeadLettered" /\ msgs[id].attempts = 2

\* C5: a publisher never sends on the closed queue: while a Publish or
\* PublishWithPriority call is at or parked in its select the closed flag is
\* not set and the channel is not closed, and no publisher's send panics.
C5_PublishNeverRacesClose ==
  /\ panicked # PanicPublishSend
  /\ \A c \in Clients : pc[c] \in {"select", "parked"} => ~closed /\ ~qclosed

C5_Witness ==
  \E c, d \in Clients : pc[c] = "select" /\ pc[d] = "lock"

\* C6: under fair scheduling a Close call that has been made returns (to the
\* caller that made it), whatever the handlers, retries and publishers do.
C6_CloseReturns ==
  \A c \in Clients : (pc[c] = "lock") ~> (pc[c] = "idle")

\* C7: under fair scheduling every message accepted by Publish reaches a
\* terminal state (Success, DeadLettered, Dropped, NoMatch). The statement is
\* checked for the bus that is never closed: the closed flag ends the
\* obligation.
StatusOf(id) == IF id \in DOMAIN msgs THEN msgs[id].status ELSE "none"

C7_EnvelopeTerminates ==
  \A id \in 1..MaxCalls :
    (StatusOf(id) = "accepted") ~> (StatusOf(id) \in Terminal \/ closed)

\* C8: at most one Close call gets past the closed test: at most one call is
\* ever closing the queue, waiting for the workers or has returned nil, the
\* queue is never closed twice, and a Close call that finds the flag set
\* returns the already-closed error and changes nothing.
CloseWinners ==
  Cardinality({ c \in Clients : pc[c] \in {"closeq", "wait"} })
    + (IF closeReturned THEN 1 ELSE 0)

C8_CloseOnce ==
  [][ /\ CloseWinners' <= 1
      /\ closed' <=> (CloseWinners' = 1)
      /\ panicked' # PanicCloseClosed
      /\ (\E c \in Clients : pc[c] = "closeq") => ~qclosed
      /\ \A c \in Clients :
           (closed /\ pc[c] = "lock" /\ pc'[c] # "lock")
             => /\ pc'[c] = "idle"
                /\ last' = [op |-> "Close", ret |-> ErrAlreadyClosed]
                /\ UNCHANGED << closed, qclosed, queue, sendq, regVars, workVars,
                                middleware, msgs, closeReturned >> ]_vars

C8_Witness ==
  closeReturned /\ last = [op |-> "Close", ret |-> ErrAlreadyClosed]

\* C9: once the closed flag is set, a call of Use or Unsubscribe leaves the
\* middleware list and both registry maps unchanged.
C9_ClosedRefusesMutation ==
  [][ (closed /\ StartsCall /\ StartedOp \in {"Use", "Unsubscribe"})
      => /\ middleware' = middleware
         /\ subscriptions' = subscriptions
         /\ patterns' = patterns ]_vars

\* C10: a Publish call on the open bus returns nil or the context's error;
\* it returns nil exactly when its envelope is placed on the queue, once; when
\* its select runs with the context cancelled and no room in the queue it
\* returns the context's error; and a message whose Publish returned the
\* context's error is in no queue place, held by no worker and is never
\* dispatched. A Publish that returns at its closed test returns bus-closed.
C10_PublishResult ==
  [][ /\ \A c \in Clients :
           (pc[c] \in {"select", "parked"} /\ pc'[c] = "idle")
             => LET id == arg[c].env.id IN
                /\ last'.op = arg[c].k
                /\ last'.ret \in {Nil, ErrCanceled}
                /\ Occurrences(queue, id) = 0
                /\ last'.ret = Nil <=> Occurrences(queue', id) = 1
                /\ last'.ret = Nil <=> msgs'[id].status = "accepted"
                /\ last'.ret = ErrCanceled <=> msgs'[id].status = "Cancelled"
                /\ (pc[c] = "select" /\ arg[c].ctx = "cancelled" /\ ~CanSend)
                     => last'.ret = ErrCanceled
      /\ (StartsCall /\ pc' = pc /\ last'.op = "Publish")
           => (closed /\ last'.ret = ErrBusClosed)
      /\ \A id \in DOMAIN msgs :
           msgs[id].status = "Cancelled"
             => /\ msgs'[id] = msgs[id]
                /\ msgs[id].attempts = 0
                /\ Occurrences(queue', id) = 0
                /\ \A w \in Workers : wenv'[w].id # id ]_vars

C10_Witness ==
  /\ last = [op |-> "Publish", ret |-> ErrCanceled]
  /\ Len(queue) = qcap
  /\ \E id \in DOMAIN msgs : msgs[id].status = "Cancelled"

\* C11: a PublishWithPriority call on the open bus either returns the context's
\* error at once, leaving the queue, the parked senders and the messages as
\* they were (no envelope is made), or reaches its select with a context that
\* is not cancelled: a call made with a cancelled context never reaches the
\* select, whether the queue has room or not.
C11_PriorityFailsFast ==
  [][ (~closed /\ StartsCall /\ StartedOp = "PublishWithPriority")
      => \/ /\ pc' = pc
            /\ last' = [op |-> "PublishWithPriority", ret |-> ErrCanceled]
            /\ UNCHANGED << queue, sendq, msgs, nextMsg >>
         \/ \E c \in Clients :
              /\ pc[c] = "idle" /\ pc'[c] = "select"
              /\ arg'[c].ctx = "live" ]_vars

C11_Witness ==
  /\ ~closed
  /\ last = [op |-> "PublishWithPriority", ret |-> ErrCanceled]
  /\ Len(queue) < qcap
  /\ msgs = <<>>

\* ----------------------------------------------------------- the registry
\* The bus with one worker and an observer: callers subscribe handlers under
\* overlapping patterns, unsubscribe (concurrently too), publish to two
\* topics, synchronously and through the queue, and close the bus.
RegCalls == 4
RegTopics   == { <<"a", Dot, "b">>, <<"a", Dot, "c">> }
RegPatterns == { <<>>, <<"a", Dot, "b">>, <<"a", Dot, Star>>, <<Star>> }
RegHandlers == { "hOk", NilHandler }

RegInit ==
  /\ workers = 1
  /\ maxRetries = 1
  /\ dlqHandler = NilHandler
  /\ qcap = QueueCap
  /\ observer = TRUE
  /\ traced = TRUE
  /\ locks = NoLocks
  /\ callsLeft = RegCalls
  /\ Fresh

RegNext ==
  \/ \E c \in Clients, t \in RegTopics : Publish(c, t, "live")
  \/ \E c \in Clients : SelectSend(c)
  \/ \E c \in Clients : SelectPark(c)
  \/ \E c \in Clients, t \in RegTopics : PublishSync(c, t)
  \/ \E c \in Clients : SyncInvoke(c)
  \/ \E c \in Clients, p \in RegPatterns, h \in RegHandlers :
       Subscribe(c, p, h)
  \/ \E c \in Clients, id \in IssuedSubs : UnsubscribeRead(c, id)
  \/ \E c \in Clients : UnsubscribeRemove(c)
  \/ \E c \in Clients : CloseCall(c)
  \/ \E c \in Clients : CloseLock(c)
  \/ \E c \in Clients : CloseQueue(c)
  \/ \E c \in Clients : CloseFinish(c)
  \/ \E w \in Workers : WorkerRecv(w)
  \/ \E w \in Workers : WorkerExit(w)
  \/ \E w \in Workers : WorkerResolve(w)
  \/ \E w \in Workers : WorkerInvoke(w)

RegSpec == RegInit /\ [][RegNext]_vars

\* every registered middleware calls its inner handler once and returns its error
PassThrough ==
  \A i \in 1..Len(middleware) : middleware[i] \in Logging \cup {"pass"}

IsHandlerEvent(e) == e[1] = "handler"
Invoked(hs) == [i \in 1..Len(hs) |-> <<"handler", hs[i]>>]

\* the error of the last handler of hs that fails, nil when none fails
LastFailure(hs) ==
  LET F == { i \in 1..Len(hs) : HandlerErr(hs[i]) # Nil }
  IN IF F = {} THEN Nil
     ELSE HandlerErr(hs[CHOOSE i \in F : \A j \in F : j <= i])

\* the subscriptions whose pattern matches the topic
Matching(topic) ==
  { i \in DOMAIN subscriptions : Match(subscriptions[i].pattern, topic) }

\* C12: a PublishSync call on the open bus resolves one handler per matching
\* subscription; with none it returns nil at once and nothing is invoked;
\* otherwise (the registered middleware passing through) the call invokes each
\* resolved handler exactly once, in the resolved order, whatever the earlier
\* ones returned, and returns the error of the last one that failed, nil when
\* none failed.
C12_SyncRunsAll ==
  [][ /\ (StartsCall /\ StartedOp = "PublishSync" /\ ~closed)
           => LET id == nextMsg' IN
              IF Matching(msgs'[id].topic) = {}
              THEN /\ pc' = pc
                   /\ last' = [op |-> "PublishSync", ret |-> Nil]
                   /\ msgs'[id].calls = 0 /\ msgs'[id].evs = <<>>
              ELSE \E c \in Clients :
                     /\ pc[c] = "idle" /\ pc'[c] = "sync"
                     /\ Len(arg'[c].handlers) = Cardinality(Matching(msgs'[id].topic))
      /\ \A c \in Clients :
           (pc[c] = "sync" /\ pc'[c] = "idle" /\ PassThrough)
             => LET hs == arg[c].handlers
                    id == arg[c].id
                IN /\ SelectSeq(msgs'[id].evs, IsHandlerEvent) = Invoked(hs)
                   /\ msgs'[id].calls = Len(hs)
                   /\ msgs'[id].attempts = 1
                   /\ last' = [op |-> "PublishSync", ret |-> LastFailure(hs)] ]_vars

C12_Witness ==
  /\ last = [op |-> "PublishSync", ret |-> ErrHandler]
  /\ \E id \in DOMAIN msgs :
       /\ msgs[id].status = "SyncDone"
       /\ msgs[id].evs = << <<"handler", "hFail2">>, <<"handler", "hFail">>,
                            <<"handler", "hOk">> >>

\* number of places of the sequence q that hold x
RECURSIVE Count(_, _)
Count(q, x) ==
  IF q = <<>> THEN 0 ELSE (IF Head(q) = x THEN 1 ELSE 0) + Count(Tail(q), x)

\* C13: the handlers PublishSync resolves for a topic are, handler by handler,
\* those of the subscriptions whose pattern matches it, one per matching
\* subscription and none for a subscription that does not match, however the
\* patterns overlap; and the call invokes each handler as often as it was
\* resolved, so the number of invocations is the number of matching
\* subscriptions.
C13_OnePerMatchingSubscription ==
  [][ \A c \in Clients :
        /\ (pc[c] = "idle" /\ pc'[c] = "sync")
             => LET hs == arg'[c].handlers
                    M  == Matching(msgs'[arg'[c].id].topic)
                IN /\ Len(hs) = Cardinality(M)
                   /\ \A h \in Handlers :
                        Count(hs, h)
                          = Cardinality({ i \in M : subscriptions[i].handler = h })
        /\ (pc[c] = "sync" /\ pc'[c] = "idle")
             => LET hs == arg[c].handlers
                    m  == msgs'[arg[c].id]
                IN /\ m.calls = Len(hs)
                   /\ Len(m.evs) = Len(hs)
                   /\ \A h \in Handlers :
                        Count(m.evs, <<"handler", h>>) = Count(hs, h) ]_vars

C13_Witness ==
  \E id \in DOMAIN msgs :
    /\ msgs[id].status = "SyncDone"
    /\ msgs[id].topic = <<"a", Dot, "c">>
    /\ msgs[id].calls = 2
    /\ Cardinality(DOMAIN subscriptions) = 3
    /\ { subscriptions[i].pattern : i \in DOMAIN subscriptions }
         = { <<"a", Dot, "b">>, <<"a", Dot, Star>>, <<Star>> }

\* the handlers hs all belong to live subscriptions that match the topic
FromLiveMatching(hs, topic) ==
  \A k \in 1..Len(hs) :
    \E i \in Matching(topic) : subscriptions[i].handler = hs[k]

Indexed(idx) == UNION { SeqToSet(idx[p]) : p \in DOMAIN idx }

\* C14: an Unsubscribe that returns nil has taken its subscription out of both
\* registry maps and a subscription taken out never comes back; a handler
\* resolution, by PublishSync or by a worker, yields only handlers of
\* subscriptions that are in the registry at that moment and match the
\* topic, and as many of them as there are; a PublishSync that finds no
\* matching subscription returns nil and invokes nothing.
C14_UnsubscribedNotInvoked ==
  [][ /\ \A i \in IssuedSubs :
           i \notin DOMAIN subscriptions => i \notin DOMAIN subscriptions'
      /\ \A c \in Clients :
           /\ (pc[c] = "unsub" /\ pc'[c] = "idle" /\ last'.ret = Nil)
                => /\ arg[c].id \notin DOMAIN subscriptions'
                   /\ arg[c].id \notin Indexed(patterns')
           /\ (pc[c] = "idle" /\ pc'[c] = "sync")
                => /\ FromLiveMatching(arg'[c].handlers, msgs'[arg'[c].id].topic)
                   /\ Len(arg'[c].handlers)
                        = Cardinality(Matching(msgs'[arg'[c].id].topic))
      /\ \A w \in Workers :
           (wpc[w] = "resolve" /\ wpc'[w] = "invoke")
             => /\ FromLiveMatching(whandlers'[w], wenv[w].topic)
                /\ Len(whandlers'[w]) = Cardinality(Matching(wenv[w].topic))
      /\ (StartsCall /\ StartedOp = "PublishSync" /\ ~closed
             /\ Matching(msgs'[nextMsg'].topic) = {})
           => /\ last' = [op |-> "PublishSync", ret |-> Nil]
              /\ msgs'[nextMsg'].calls = 0 ]_vars

C14_Witness ==
  /\ ~closed
  /\ nextSub = 1 /\ subscriptions = <<>>
  /\ notified.unsubscribe = 1
  /\ last = [op |-> "PublishSync", ret |-> Nil]
  /\ \E id \in DOMAIN msgs : msgs[id].status = "SyncDone" /\ msgs[id].calls = 0

\* C15: an Unsubscribe whose subscription is no longer in the registry (a
\* second Unsubscribe, also one that looked the subscription up before a
\* concurrent Unsubscribe removed it) returns the not-found error and leaves
\* both registry maps, the observer's record and the message history as they
\* were; an Unsubscribe that finds it removes it and notifies once; so there
\* are never more OnUnsubscribe notifications than removed subscriptions.
C15_SecondUnsubscribeFails ==
  [][ /\ \A c \in Clients :
           (pc[c] = "unsub" /\ pc'[c] = "idle")
             => IF arg[c].id \in DOMAIN subscriptions
                THEN /\ last' = [op |-> "Unsubscribe", ret |-> Nil]
                     /\ arg[c].id \notin DOMAIN subscriptions'
                     /\ notified'.unsubscribe = notified.unsubscribe + 1
                ELSE /\ last' = [op |-> "Unsubscribe", ret |-> ErrNotFound]
                     /\ UNCHANGED << subscriptions, patterns, notified, msgs >>
      /\ notified'.unsubscribe
           <= Cardinality(IssuedSubs' \ DOMAIN subscriptions') ]_vars

C15_Witness ==
  /\ ~closed
  /\ nextSub = 1 /\ subscriptions = <<>> /\ patterns = <<>>
  /\ notified.unsubscribe = 1
  /\ last = [op |-> "Unsubscribe", ret |-> ErrNotFound]

\* C16: a Subscribe call on the open bus either returns an invalid-pattern or
\* invalid-handler error and leaves both registry maps, the id counter and the
\* observer's record as they were, or returns nil having added exactly one
\* subscription, with a non-empty pattern and a handler that is not nil, under
\* a new id put at the end of its pattern's id list, every other entry of
\* both maps kept, and OnSubscribe fired once.
C16_SubscribeValidates ==
  [][ (StartsCall /\ StartedOp = "Subscribe" /\ ~closed)
      => /\ pc' = pc
         /\ \/ /\ last'.ret \in {ErrInvalidPattern, ErrInvalidHandler}
               /\ UNCHANGED << subscriptions, patterns, nextSub, notified >>
            \/ LET id == nextSub + 1 IN
               /\ last'.ret = Nil
               /\ nextSub' = id
               /\ id \notin DOMAIN subscriptions
               /\ DOMAIN subscriptions' = DOMAIN subscriptions \cup {id}
               /\ \A i \in DOMAIN subscriptions : subscriptions'[i] = subscriptions[i]
               /\ subscriptions'[id].pattern # <<>>
               /\ subscriptions'[id].handler \in Handlers
               /\ LET p == subscriptions'[id].pattern IN
                  /\ DOMAIN patterns' = DOMAIN patterns \cup {p}
                  /\ patterns'[p] = (IF p \in DOMAIN patterns THEN patterns[p] ELSE <<>>)
                                       \o <<id>>
                  /\ \A q \in DOMAIN patterns \ {p} : patterns'[q] = patterns[q]
               /\ notified'.subscribe = notified.subscribe + 1 ]_vars

C16_Witness ==
  /\ ~closed
  /\ last = [op |-> "Subscribe", ret |-> ErrInvalidHandler]
  /\ notified.subscribe = 2
  /\ \E p \in DOMAIN patterns : patterns[p] = <<1, 2>>

\* C17: the two registry maps agree: the ids listed in the pattern index are
\* exactly the ids of the subscription map, every list of the index is
\* non-empty and holds each of its ids once, and an id is listed under the
\* pattern of its subscription (hence under no other).
C17_RegistryConsistent ==
  /\ Indexed(patterns) = DOMAIN subscriptions
  /\ \A p \in DOMAIN patterns :
       /\ patterns[p] # <<>>
       /\ \A k \in 1..Len(patterns[p]) :
            /\ Count(patterns[p], patterns[p][k]) = 1
            /\ patterns[p][k] \in DOMAIN subscriptions
            /\ subscriptions[patterns[p][k]].pattern = p

C17_Witness ==
  /\ nextSub = 3
  /\ DOMAIN subscriptions = {1, 3}
  /\ notified.unsubscribe = 1
  /\ \E p \in DOMAIN patterns : patterns[p] = <<1, 3>>

\* every registered middleware is a logging one
AllLogging == \A i \in 1..Len(middleware) : middleware[i] \in Logging

Befores(mws) == [i \in 1..Len(mws) |-> <<"before", mws[i]>>]
Afters(mws)  == [i \in 1..Len(mws) |-> <<"after", mws[Len(mws) + 1 - i]>>]

\* C18: with logging middleware only, the log of every dispatch that was made,
\* by PublishSync or by a worker, is nested: the 'before' parts of a leading
\* part m1..mn of the middleware list in registration order, then the
\* handlers, then the 'after' parts in the order mn..m1.
C18_MiddlewareNesting ==
  AllLogging =>
    \A id \in DOMAIN msgs :
      msgs[id].attempts > 0 =>
        LET evs == msgs[id].evs
            H   == SelectSeq(evs, IsHandlerEvent)
        IN /\ H # <<>>
           /\ \E n \in 0..Len(middleware) :
                evs = Befores(SubSeq(middleware, 1, n)) \o H
                        \o Afters(SubSeq(middleware, 1, n))

C18_Witness ==
  \E id \in DOMAIN msgs :
    /\ msgs[id].status = "Success"
    /\ msgs[id].evs = << <<"before", "m1">>, <<"before", "m2">>, <<"handler", "hOk">>,
                         <<"after", "m2">>, <<"after", "m1">> >>

IsBeforeEvent(e) == e[1] = "before"

\* C19: a dispatch, by PublishSync or by a worker, is wrapped in the middleware
\* list as it is at that dispatch: with logging middleware only, its log
\* starts with the 'before' part of every middleware registered by then,
\* those registered after the message was published included.
C19_ChainIsCurrent ==
  [][ AllLogging =>
        /\ \A c \in Clients :
             (pc[c] = "sync" /\ pc'[c] = "idle")
               => LET evs == msgs'[arg[c].id].evs IN
                  /\ SelectSeq(evs, IsBeforeEvent) = Befores(middleware)
                  /\ SubSeq(evs, 1, Len(middleware)) = Befores(middleware)
        /\ \A w \in Workers :
             (wpc[w] = "invoke" /\ wpc'[w] # "invoke")
               => LET evs == msgs'[wenv[w].id].evs IN
                  /\ SelectSeq(evs, IsBeforeEvent) = Befores(middleware)
                  /\ SubSeq(evs, 1, Len(middleware)) = Befores(middleware) ]_vars

C19_Witness ==
  \E id \in DOMAIN msgs :
    /\ msgs[id].status = "Success"
    /\ msgs[id].born = 0
    /\ nextSub = 1
    /\ msgs[id].evs = << <<"before", "m1">>, <<"handler", "hOk">>, <<"after", "m1">> >>

\* C20: when Use writes the middleware list no dispatch is at its read of
\* the list, neither a PublishSync call nor a worker in processMessage, and
\* no read of the list is torn by a write.
C20_UseExcludesDispatchReads ==
  [][ /\ (middleware' # middleware)
           => /\ \A c \in Clients : pc[c] # "sync"
              /\ \A w \in Workers : wpc[w] # "invoke"
      /\ panicked' # PanicWrapRace ]_vars

\* ------------------------------------------- concurrent synchronous publishes
\* One handler is subscribed to a topic; then the callers publish to the topic
\* synchronously, each call on its own goroutine, while other callers
\* subscribe to and unsubscribe from patterns that do not match the topic.
ConcCalls == 5
ConcTopic == <<"a", Dot, "b">>
ConcOtherPatterns == { <<"a", Dot, "c">>, <<"b", Dot, Star>> }

ConcInit ==
  /\ workers = 1
  /\ maxRetries = 1
  /\ dlqHandler = NilHandler
  /\ qcap = QueueCap
  /\ observer = TRUE
  /\ traced = TRUE
  /\ locks = NoLocks
  /\ callsLeft = ConcCalls
  /\ Fresh

ConcNext ==
  \/ \E c \in Clients : nextSub = 0 /\ Subscribe(c, ConcTopic, "hOk")
  \/ \E c \in Clients, p \in ConcOtherPatterns, h \in Handlers :
       nextSub > 0 /\ Subscribe(c, p, h)
  \/ \E c \in Clients : nextSub > 0 /\ PublishSync(c, ConcTopic)
  \/ \E c \in Clients : SyncInvoke(c)
  \/ \E c \in Clients, id \in IssuedSubs \ {1} : UnsubscribeRead(c, id)
  \/ \E c \in Clients : UnsubscribeRemove(c)

ConcSpec == ConcInit /\ [][ConcNext]_vars

\* the handler invocations made so far, over all messages
RECURSIVE SumCalls(_)
SumCalls(ids) ==
  IF ids = {} THEN 0
  ELSE LET id == CHOOSE i \in ids : TRUE
       IN msgs[id].calls + SumCalls(ids \ {id})

Received == SumCalls(DOMAIN msgs)
SyncReturned == { id \in DOMAIN msgs : msgs[id].status = "SyncDone" }

\* C21: with one handler subscribed to the topic, every PublishSync call on
\* the topic returns nil having invoked the handler once, at every moment the
\* handler has been invoked once per call that has returned, and once all N
\* calls have returned it has been invoked exactly N times, whatever
\* Subscribe and Unsubscribe calls on other patterns ran meanwhile.
C21_ConcurrentSyncCount ==
  [][ /\ \A c \in Clients :
           (pc[c] = "sync" /\ pc'[c] = "idle")
             => /\ last' = [op |-> "PublishSync", ret |-> Nil]
                /\ msgs'[arg[c].id].calls = 1
      /\ Received' = Cardinality(SyncReturned')
      /\ (\A c \in Clients : pc'[c] # "sync")
           => Received' = Cardinality(DOMAIN msgs') ]_vars

C21_Witness ==
  /\ \A c \in Clients : pc[c] = "idle"
  /\ Cardinality(DOMAIN msgs) = 2
  /\ \E id \in DOMAIN msgs : msgs[id].peers = 1
  /\ Received = 2
  /\ nextSub = 2
  /\ notified.unsubscribe = 1
  /\ last = [op |-> "PublishSync", ret |-> Nil]

\* ------------------------------------------------------ the dead-letter path
\* The bus with a dead-letter handler, one that returns nil or one that
\* fails: callers subscribe handlers, register middleware, publish through
\* the queue and close the bus.
DlqCalls == 4
DlqSet   == { "hOk", "hFail" }

DlqInit ==
  /\ workers \in 1..MaxWorkers
  /\ maxRetries \in 0..MaxMaxRetries
  /\ dlqHandler \in DlqSet
  /\ qcap = QueueCap
  /\ observer = FALSE
  /\ traced = TRUE
  /\ locks = NoLocks
  /\ callsLeft = DlqCalls
  /\ Fresh

DlqNext ==
  \/ \E c \in Clients, t \in Topics : Publish(c, t, "live")
  \/ \E c \in Clients : SelectSend(c)
  \/ \E c \in Clients : SelectPark(c)
  \/ \E c \in Clients, p \in Topics, h \in Handlers : Subscribe(c, p, h)
  \/ \E c \in Clients, m \in Middlewares : Use(c, m)
  \/ \E c \in Clients : CloseCall(c)
  \/ \E c \in Clients : CloseLock(c)
  \/ \E c \in Clients : CloseQueue(c)
  \/ \E c \in Clients : CloseFinish(c)
  \/ \E w \in Workers : WorkerRecv(w)
  \/ \E w \in Workers : WorkerExit(w)
  \/ \E w \in Workers : WorkerResolve(w)
  \/ \E w \in Workers : WorkerInvoke(w)

DlqSpec == DlqInit /\ [][DlqNext]_vars

\* C22: the dead-letter handler is called at most once for a message, by the
\* worker whose dispatch of it failed with the retries exhausted (the
\* incremented counter has reached maxRetries, all max(1, maxRetries)
\* attempts are made), and with the message that was published (its id and
\* topic); whatever the handler returns, that worker lets go of the envelope
\* and waits for the next one, the queue and the parked senders are as they
\* were, and from then on the message is in no queue place, is held by no
\* worker and its history never changes: no retry, no second call.
C22_DeadLetterOnce ==
  [][ /\ \A id \in DOMAIN msgs' \ DOMAIN msgs : msgs'[id].dlq = 0
      /\ \A id \in DOMAIN msgs :
           /\ msgs'[id].dlq <= 1
           /\ msgs'[id].dlq # msgs[id].dlq
                => \E w \in Workers :
                     /\ wpc[w] = "invoke" /\ wenv[w].id = id
                     /\ wenv[w].retries + 1 >= maxRetries
                     /\ msgs'[id].attempts = Max(1, maxRetries)
                     /\ msgs'[id].dlqGot
                          = << [id |-> id, topic |-> msgs[id].topic,
                                err |-> HandlerErr(dlqHandler)] >>
                     /\ wpc'[w] = "recv" /\ wenv'[w] = NoEnv
                     /\ UNCHANGED << queue, sendq, panicked >>
           /\ msgs[id].dlq = 1
                => /\ msgs'[id] = msgs[id]
                   /\ Occurrences(queue', id) = 0
                   /\ \A w \in Workers : wenv'[w].id # id ]_vars

C22_Witness ==
  /\ maxRetries = 2
  /\ queue = <<>> /\ sendq = <<>>
  /\ \A w \in Workers : wpc[w] = "recv"
  /\ \E id \in DOMAIN msgs :
       /\ msgs[id].status = "DeadLettered"
       /\ msgs[id].attempts = 2
       /\ msgs[id].dlqGot = << [id |-> id, topic |-> <<"x">>, err |-> ErrHandler] >>

\* ------------------------------------------------------------ the matcher
\* Match as a function of its two arguments: a caller holds a pattern and a
\* topic, any two strings of at most MaxLen characters over the alphabet, and
\* calls Match on them.
MaxLen == 3
Alphabet == { "a", "b", Dot, Star, Hash }
Strings  == UNION { [1..n -> Alphabet] : n \in 0..MaxLen }

MatchInit ==
  /\ workers = 1
  /\ maxRetries = 1
  /\ dlqHandler = NilHandler
  /\ qcap = QueueCap
  /\ observer = FALSE
  /\ traced = FALSE
  /\ locks = NoLocks
  /\ callsLeft = 0
  /\ Started
  /\ \E p \in Strings, t \in Strings :
       arg = [c \in Clients |->
                IF c = 1 THEN [k |-> "Match", pattern |-> p, topic |-> t] ELSE NoArg]

\* pm.Match(pattern, topic) is called and returns
MatchCall(c) ==
  /\ Running
  /\ pc[c] = "idle"
  /\ arg[c].k = "Match"
  /\ last' = [op |-> "Match", ret |-> Match(arg[c].pattern, arg[c].topic)]
  /\ UNCHANGED << cfgVars, closed, middleware, queue, qclosed, sendq, regVars,
                  workVars, pc, arg, idVars, callsLeft, msgs, panicked,
                  closeReturned, notified >>
  /\ locks' = Locked(<<>>)

MatchNext == \E c \in Clients : MatchCall(c)

MatchSpec == MatchInit /\ [][MatchNext]_vars

\* the positions of the dots of s, the number of its segments and its k-th
\* segment: the characters between the (k-1)-th dot and the k-th
DotsOf(s) == { i \in 1..Len(s) : s[i] = Dot }
SegmentCount(s) == Cardinality(DotsOf(s)) + 1
DotAt(s, k) ==
  IF k = 0 THEN 0
  ELSE IF k = SegmentCount(s) THEN Len(s) + 1
  ELSE CHOOSE i \in DotsOf(s) : Cardinality({ j \in DotsOf(s) : j <= i }) = k
Segment(s, k) == SubSeq(s, DotAt(s, k - 1) + 1, DotAt(s, k) - 1)
HasStar(s) == \E i \in 1..Len(s) : s[i] = Star

\* the rules of matching, stated on the segments
MatchRules(pattern, topic) ==
  \/ pattern = <<Star>>
  \/ pattern = <<Hash>>
  \/ pattern = topic
  \/ /\ HasStar(pattern)
     /\ SegmentCount(pattern) = SegmentCount(topic)
     /\ \A k \in 1..SegmentCount(pattern) :
          Segment(pattern, k) = <<Star>> \/ Segment(pattern, k) = Segment(topic, k)

\* the call of Match has returned
Matched == last.op = "Match"

C24_NoStarNeedsEquality ==
  (Matched /\ ~HasStar(arg[1].pattern) /\ arg[1].pattern # arg[1].topic)
    => last.ret = FALSE

\* C24 (amended): for every pattern without '*' other than "#" and every
\* topic different from the pattern, Match returns false; the pattern "#"
\* matches every topic.
C24_NoStarNoHashNeedsEquality ==
  /\ (Matched /\ ~HasStar(arg[1].pattern) /\ arg[1].pattern # <<Hash>>
        /\ arg[1].pattern # arg[1].topic)
       => last.ret = FALSE
  /\ (Matched /\ arg[1].pattern = <<Hash>>) => last.ret = TRUE

C24_Witness ==
  /\ Matched
  /\ arg[1].pattern = <<"a", Dot, "b">>
  /\ arg[1].topic = <<"a", Dot, "a">>
  /\ last.ret = FALSE

\* C25: for a pattern of several segments of which one at least is "*", Match
\* returns true exactly when the topic has as many segments and each pattern
\* segment either is "*" and faces a non-empty topic segment or equals the
\* topic's segment: a "*" segment never matches an empty segment.
C25_StarNeedsNonEmptySegment ==
  LET p == arg[1].pattern
      t == arg[1].topic
  IN (/\ Matched
      /\ SegmentCount(p) >= 2
      /\ \E k \in 1..SegmentCount(p) : Segment(p, k) = <<Star>>)
       => (last.ret <=>
             /\ SegmentCount(p) = SegmentCount(t)
             /\ \A k \in 1..SegmentCount(p) :
                  \/ Segment(p, k) = <<Star>> /\ Segment(t, k) # <<>>
                  \/ Segment(p, k) = Segment(t, k))

\* ------------------------------------------------------------- priorities
\* The bus with one worker and a queue with room for more than one envelope:
\* callers publish with any of the four priorities while others wait in the
\* queue, handlers fail and their envelopes are sent again.
PrioCalls == 3

PrioInit ==
  /\ workers = 1
  /\ maxRetries \in 1..MaxMaxRetries
  /\ dlqHandler = NilHandler
  /\ qcap = QueueCap + 1
  /\ observer = FALSE
  /\ traced = TRUE
  /\ locks = NoLocks
  /\ callsLeft = PrioCalls
  /\ Fresh

PrioNext ==
  \/ \E c \in Clients, t \in Topics, p \in Priorities :
       PublishWithPriority(c, t, "live", p)
  \/ \E c \in Clients : SelectSend(c)
  \/ \E c \in Clients : SelectPark(c)
  \/ \E c \in Clients, p \in Topics, h \in Handlers : Subscribe(c, p, h)
  \/ \E w \in Workers : WorkerRecv(w)
  \/ \E w \in Workers : WorkerResolve(w)
  \/ \E w \in Workers : WorkerInvoke(w)

PrioSpec == PrioInit /\ [][PrioNext]_vars

\* the envelopes that exist: in the buffer, held by a worker, held by a
\* publisher in its select
Envelopes ==
  SeqToSet(queue)
    \cup { wenv[w] : w \in { v \in Workers : wenv[v] # NoEnv } }
    \cup { arg[c].env : c \in { d \in Clients : pc[d] \in {"select", "parked"} } }

C27_HigherPriorityFirst ==
  [][ \A w \in Workers :
        (wpc[w] = "recv" /\ wpc'[w] = "resolve")
          => \A i \in 1..Len(queue) : queue[i].priority <= wenv'[w].priority ]_vars

\* ------------------------------------------------------- registration order
\* The bus with distinguishable handlers: callers subscribe them under an
\* exact pattern and under a wildcard that both match the topic, unsubscribe
\* (concurrently too) and publish to the topic synchronously.
OrderCalls == 5
OrderPatterns == { <<"x">>, <<Star>> }

OrderInit ==
  /\ workers = 1
  /\ maxRetries = 1
  /\ dlqHandler = NilHandler
  /\ qcap = QueueCap
  /\ observer = TRUE
  /\ traced = TRUE
  /\ locks = NoLocks
  /\ callsLeft = OrderCalls
  /\ Fresh

OrderNext ==
  \/ \E c \in Clients, t \in Topics : PublishSync(c, t)
  \/ \E c \in Clients : SyncInvoke(c)
  \/ \E c \in Clients, p \in OrderPatterns, h \in ChainHandlers : Subscribe(c, p, h)
  \/ \E c \in Clients, id \in IssuedSubs : UnsubscribeRead(c, id)
  \/ \E c \in Clients : UnsubscribeRemove(c)

OrderSpec == OrderInit /\ [][OrderNext]_vars

\* the ids of S in increasing order: ids are handed out in registration order
RECURSIVE Ascending(_)
Ascending(S) ==
  IF S = {} THEN <<>>
  ELSE LET m == CHOOSE i \in S : \A j \in S : i <= j
       IN <<m>> \o Ascending(S \ {m})

\* the handlers of the subscriptions of pattern p that are in the registry, in
\* registration order
ByRegistration(p) ==
  LET ids == Ascending({ i \in DOMAIN subscriptions : subscriptions[i].pattern = p })
  IN [k \in 1..Len(ids) |-> subscriptions[ids[k]].handler]

RECURSIVE PatternByPattern(_)
PatternByPattern(ps) ==
  IF ps = <<>> THEN <<>>
  ELSE ByRegistration(Head(ps)) \o PatternByPattern(Tail(ps))

\* what a resolution for the topic may yield: pattern by pattern, the matching
\* patterns in any order, the handlers of one pattern in registration order
InRegistrationOrder(topic) ==
  { PatternByPattern(ps) :
      ps \in Orders({ subscriptions[i].pattern : i \in Matching(topic) }) }

\* C28: the handler resolution of a dispatch lists the handlers of each
\* matching pattern together and in the order their subscriptions were
\* registered, and the dispatch invokes them in the order listed; every id
\* list of the pattern index is in registration order, an Unsubscribe that
\* finds its subscription takes the id out of its list, and no step changes
\* the relative order of the ids that stay in a list.
C28_RegistrationOrder ==
  [][ /\ \A c \in Clients :
           /\ (pc[c] = "idle" /\ pc'[c] = "sync")
                => arg'[c].handlers \in InRegistrationOrder(msgs'[arg'[c].id].topic)
           /\ (pc[c] = "sync" /\ pc'[c] = "idle")
                => msgs'[arg[c].id].evs = Invoked(arg[c].handlers)
           /\ (pc[c] = "unsub" /\ pc'[c] = "idle")
                => \A p \in DOMAIN patterns' :
                     patterns'[p]
                       = SelectSeq(patterns[p], LAMBDA i : i # arg[c].id)
      /\ \A p \in DOMAIN patterns' :
           patterns'[p] = Ascending(SeqToSet(patterns'[p]))
      /\ \A p \in DOMAIN patterns \cap DOMAIN patterns' :
           SelectSeq(patterns[p], LAMBDA i : i \in SeqToSet(patterns'[p]))
             = SelectSeq(patterns'[p], LAMBDA i : i \in SeqToSet(patterns[p])) ]_vars

C28_Witness ==
  /\ nextSub = 3
  /\ DOMAIN patterns = { <<"x">> }
  /\ patterns[<<"x">>] = <<1, 3>>
  /\ notified.unsubscribe = 1
  /\ \E id \in DOMAIN msgs :
       /\ msgs[id].status = "SyncDone"
       /\ msgs[id].evs = << <<"handler", "hFail2">>, <<"handler", "hOk">> >>

\* -------------------------------------------- one synchronous publisher
\* One caller publishes synchronously, call after call; the other callers
\* subscribe and unsubscribe meanwhile.
SeqCalls == 4
Publisher == 1

SeqInit ==
  /\ workers = 1
  /\ maxRetries = 1
  /\ dlqHandler = NilHandler
  /\ qcap = QueueCap
  /\ observer = TRUE
  /\ traced = TRUE
  /\ locks = NoLocks
  /\ callsLeft = SeqCalls
  /\ Fresh

SeqNext ==
  \/ \E t \in Topics : PublishSync(Publisher, t)
  \/ \E c \in Clients : SyncInvoke(c)
  \/ \E c \in Clients, p \in Topics, h \in Handlers : Subscribe(c, p, h)
  \/ \E c \in Clients, id \in IssuedSubs : UnsubscribeRead(c, id)
  \/ \E c \in Clients : UnsubscribeRemove(c)

SeqSpec == SeqInit /\ [][SeqNext]_vars

\* C29: with one publisher calling PublishSync again and again, the handlers
\* of a call run in the call, between its start and its return: when the
\* call returns each handler it resolved has been invoked, in order; when a
\* call starts every earlier call has returned with its handlers run; and
\* nothing is invoked for a call after it returned. So the handlers run in
\* the order of the calls.
C29_SyncCallOrder ==
  [][ /\ \A id \in DOMAIN msgs' \ DOMAIN msgs :
           /\ \A j \in DOMAIN msgs : j < id /\ msgs[j].status = "SyncDone"
           /\ msgs'[id].calls = 0
      /\ \A j \in DOMAIN msgs :
           /\ msgs[j].status = "SyncDone" => msgs'[j] = msgs[j]
           /\ msgs'[j].calls # msgs[j].calls
                => /\ pc[Publisher] = "sync" /\ arg[Publisher].id = j
                   /\ pc'[Publisher] = "idle"
      /\ (pc[Publisher] = "sync" /\ pc'[Publisher] = "idle")
           => LET id == arg[Publisher].id IN
              /\ msgs'[id].status = "SyncDone"
              /\ msgs'[id].calls = Len(arg[Publisher].handlers)
              /\ msgs'[id].evs = Invoked(arg[Publisher].handlers)
              /\ last'.op = "PublishSync" ]_vars

C29_Witness ==
  /\ nextMsg = 2
  /\ pc[Publisher] = "idle"
  /\ msgs[1].status = "SyncDone" /\ msgs[1].calls = 1
  /\ msgs[2].status = "SyncDone" /\ msgs[2].calls = 2
  /\ last.op = "PublishSync"

\* ----------------------------------------------------- unmatched messages
\* The bus with a dead-letter handler, an observer and a logging middleware:
\* callers publish through the queue to a topic that a subscription may
\* match, may not match, or may no longer match when the worker gets to it.
DropCalls == 4
DropPatterns == { <<"x">>, <<"y">> }

DropInit ==
  /\ workers = 1
  /\ maxRetries \in 1..MaxMaxRetries
  /\ dlqHandler = "hOk"
  /\ qcap = QueueCap
  /\ observer = TRUE
  /\ traced = TRUE
  /\ locks = NoLocks
  /\ callsLeft = DropCalls
  /\ Fresh

DropNext ==
  \/ \E c \in Clients, t \in Topics : Publish(c, t, "live")
  \/ \E c \in Clients : SelectSend(c)
  \/ \E c \in Clients : SelectPark(c)
  \/ \E c \in Clients, p \in DropPatterns, h \in Handlers : Subscribe(c, p, h)
  \/ \E c \in Clients, id \in IssuedSubs : UnsubscribeRead(c, id)
  \/ \E c \in Clients : UnsubscribeRemove(c)
  \/ \E c \in Clients : Use(c, "m1")
  \/ \E w \in Workers : WorkerRecv(w)
  \/ \E w \in Workers : WorkerResolve(w)
  \/ \E w \in Workers : WorkerInvoke(w)

DropSpec == DropInit /\ [][DropNext]_vars

\* C30: a worker that resolves the handlers of its envelope when no
\* subscription matches the topic lets go of the envelope and waits for the
\* next one: the message's dispatch attempts, handler invocations, log and
\* dead-letter record are as they were (nothing ran), the queue and the
\* parked senders are as they were (nothing is sent again), the observer
\* hears nothing and nothing panics; and the message is dropped for good: it
\* is in no queue place, held by no worker, its history never changes and
\* it was never handed to the dead-letter handler. This holds too for an
\* envelope sent again after a failure whose subscriptions are gone by then.
C30_NoMatchDrops ==
  [][ /\ \A w \in Workers :
           (wpc[w] = "resolve" /\ wpc'[w] # "resolve"
              /\ Matching(wenv[w].topic) = {})
             => /\ wpc'[w] = "recv" /\ wenv'[w] = NoEnv
                /\ msgs' = SetMsg(wenv[w].id, "status", "NoMatch")
                /\ UNCHANGED << queue, sendq, notified, panicked, middleware >>
      /\ \A id \in DOMAIN msgs :
           msgs[id].status = "NoMatch"
             => /\ msgs'[id] = msgs[id]
                /\ msgs[id].dlq = 0
                /\ Occurrences(queue', id) = 0
                /\ \A w \in Workers : wenv'[w].id # id ]_vars

C30_Witness ==
  /\ middleware = <<"m1">>
  /\ nextSub = 1 /\ subscriptions = <<>>
  /\ notified.unsubscribe = 1
  /\ notified.processed = 0
  /\ queue = <<>>
  /\ \A w \in Workers : wpc[w] = "recv"
  /\ \E id \in DOMAIN msgs : msgs[id].status = "NoMatch" /\ msgs[id].attempts = 0

\* ------------------------------------------------------ retries in the queue
\* the position of message id in the queue q, 0 when it is not there
PositionOf(q, id) ==
  IF \E i \in 1..Len(q) : q[i].id = id
  THEN CHOOSE i \in 1..Len(q) : q[i].id = id /\ \A j \in 1..(i - 1) : q[j].id # id
  ELSE 0

\* the step is a failed dispatch by worker w whose envelope is to be tried again
Retries(w) ==
  /\ wpc[w] = "invoke" /\ wpc'[w] # "invoke"
  /\ msgs'[wenv[w].id].status \notin Terminal
  /\ panicked' = NoPanic

\* C31: a worker whose dispatch failed with retries left sends the envelope,
\* its counter one higher, to the end of the buffer, behind every envelope
\* that is there (when the buffer is full it parks behind the senders already
\* parked, and its envelope is put at the end of the buffer when it is let
\* in); no step changes the order of two envelopes in the buffer and a worker
\* that receives takes the first one; so every envelope that was in the
\* buffer when the failed one was sent again is received before it is.
C31_RetryAtBack ==
  [][ /\ \A w \in Workers :
           /\ Retries(w)
                => LET again == [wenv[w] EXCEPT !.retries = @ + 1] IN
                   IF Len(queue) < qcap
                   THEN /\ queue' = queue \o <<again>>
                        /\ \A i \in 1..Len(queue) :
                             PositionOf(queue', queue[i].id)
                               < PositionOf(queue', again.id)
                   ELSE /\ queue' = queue
                        /\ sendq' = sendq \o << Wk(w) >>
                        /\ wenv'[w] = again
           /\ (wpc[w] = "parked" /\ wpc'[w] # "parked")
                => /\ queue # <<>>
                   /\ queue' = Tail(queue) \o << wenv[w] >>
           /\ (wpc[w] = "recv" /\ wpc'[w] = "resolve")
                => /\ wenv'[w] = Head(queue)
                   /\ \A i \in 2..Len(queue) : PositionOf(queue', queue[i].id) > 0
      /\ \A i, j \in 1..Len(queue) :
           (i < j /\ PositionOf(queue', queue[i].id) > 0
                  /\ PositionOf(queue', queue[j].id) > 0)
             => PositionOf(queue', queue[i].id) < PositionOf(queue', queue[j].id) ]_vars

\* message 2 was in the buffer when message 1 failed and was sent again: the
\* only worker holds message 2, not yet dispatched, while message 1 waits in
\* the buffer for its second attempt
C31_Witness ==
  /\ workers = 1
  /\ nextMsg = 2
  /\ msgs[1].attempts = 1 /\ msgs[2].attempts = 0
  /\ wenv[1].id = 2
  /\ Len(queue) = 1
  /\ queue[1].id = 1 /\ queue[1].retries = 1

\* ------------------------------------------------- Close and the registry
\* the step takes a subscription out of the registry
RegistryShrinks == \E i \in DOMAIN subscriptions : i \notin DOMAIN subscriptions'

\* the step is the removal of an Unsubscribe call
ByUnsubscribe ==
  \/ StartsCall /\ pc' = pc /\ last'.op = "Unsubscribe"
  \/ \E c \in Clients : pc[c] = "unsub" /\ pc'[c] = "idle"

\* the step is the end of a Close call that got past the closed test
ClearsAndReturns == \E c \in Clients : pc[c] = "wait" /\ pc'[c] = "idle"

\* a Close call is between its closed test and its return
Closing == \E c \in Clients : pc[c] \in {"closeq", "wait"}

\* C32: Close clears the registry in its last step only, after wg.Wait: at
\* that step every worker has exited, holds no envelope, and the queue and
\* the list of parked senders are empty; the steps of Close before it leave
\* the registry as it is, and apart from that step only an Unsubscribe takes
\* a subscription out. So whenever a worker resolves the handlers of an
\* envelope no Close has cleared the registry: it gets one handler per
\* subscription registered and matching then, and finds none only when no
\* registered subscription matches.
C32_CloseDrainsThenClears ==
  [][ /\ RegistryShrinks => (ByUnsubscribe \/ ClearsAndReturns)
      /\ ClearsAndReturns
           => /\ WorkersDone
              /\ \A w \in Workers : wenv[w] = NoEnv /\ whandlers[w] = <<>>
              /\ queue = <<>> /\ sendq = <<>>
              /\ subscriptions' = <<>> /\ patterns' = <<>>
              /\ closeReturned'
      /\ \A c \in Clients :
           (pc[c] \in {"lock", "closeq"} /\ pc'[c] # pc[c])
             => UNCHANGED << subscriptions, patterns >>
      /\ (Closing /\ ~ByUnsubscribe /\ ~ClearsAndReturns)
           => UNCHANGED << subscriptions, patterns >>
      /\ \A w \in Workers :
           (wpc[w] = "resolve" /\ wpc'[w] # "resolve")
             => /\ ~closeReturned
                /\ IF Matching(wenv[w].topic) = {}
                   THEN msgs'[wenv[w].id].status = "NoMatch"
                   ELSE /\ wpc'[w] = "invoke"
                        /\ Len(whandlers'[w]) = Cardinality(Matching(wenv[w].topic))
                        /\ FromLiveMatching(whandlers'[w], wenv[w].topic) ]_vars

\* Close has set the flag, closed the queue and waits for the workers while
\* an envelope queued before is still in the buffer, the worker has yet to
\* receive it, and the registry still holds the subscription that matches it
C32_Witness ==
  /\ closed /\ qclosed /\ panicked = NoPanic
  /\ \E c \in Clients : pc[c] = "wait"
  /\ \A w \in Workers : wpc[w] = "recv"
  /\ queue # <<>>
  /\ Matching(Head(queue).topic) # {}

\* -------------------------------------------------------------- the locks
\* The bus with the log of lock operations on: callers publish, through the
\* queue and synchronously, subscribe, unsubscribe, register middleware and
\* close the bus while the worker dispatches.
LockCalls == 3
LockHandlers == { "hFail", NilHandler }

LockInit ==
  /\ workers = 1
  /\ maxRetries = 2
  /\ dlqHandler = NilHandler
  /\ qcap = QueueCap
  /\ observer = FALSE
  /\ traced = FALSE
  /\ locks = [on |-> TRUE, evs |-> <<>>]
  /\ callsLeft = LockCalls
  /\ Fresh

LockNext ==
  \/ \E c \in Clients, t \in Topics : Publish(c, t, "live")
  \/ \E c \in Clients, t \in Topics, p \in PublishPriorities :
       PublishWithPriority(c, t, "live", p)
  \/ \E c \in Clients : SelectSend(c)
  \/ \E c \in Clients : SelectPark(c)
  \/ \E c \in Clients : CancelCtx(c)
  \/ \E c \in Clients, t \in Topics : PublishSync(c, t)
  \/ \E c \in Clients : SyncInvoke(c)
  \/ \E c \in Clients, p \in Patterns, h \in LockHandlers : Subscribe(c, p, h)
  \/ \E c \in Clients, id \in IssuedSubs : UnsubscribeRead(c, id)
  \/ \E c \in Clients : UnsubscribeRemove(c)
  \/ \E c \in Clients : Use(c, "pass")
  \/ \E c \in Clients : CloseCall(c)
  \/ \E c \in Clients : CloseLock(c)
  \/ \E c \in Clients : CloseQueue(c)
  \/ \E c \in Clients : CloseFinish(c)
  \/ \E w \in Workers : WorkerRecv(w)
  \/ \E w \in Workers : WorkerExit(w)
  \/ \E w \in Workers : WorkerResolve(w)
  \/ \E w \in Workers : WorkerInvoke(w)

LockSpec == LockInit /\ [][LockNext]_vars

Goroutines == { Me(c) : c \in Clients } \cup { Wk(w) : w \in Workers }

\* the mutexes goroutine t holds between two steps, with the mode, in the
\* order taken: a caller inside Publish, PublishWithPriority or PublishSync
\* holds b.mu for reading, nothing else is held from one step to the next
HeldNow ==
  [t \in Goroutines |->
     IF ~IsWorker(t) /\ t[2] \in RLocked THEN << <<"R", BusMu>> >> ELSE <<>>]

Holds(held, t, mu) == \E i \in 1..Len(held[t]) : held[t][i][2] = mu

\* the lock operations evs made one after the other, starting with the
\* mutexes st.held: the mutexes held afterwards, and whether every operation
\* was in order: an acquisition finds the mutex free (for a reader: not
\* write-locked), is not made by a goroutine that holds the mutex already,
\* and b.mu is not acquired by a goroutine that holds registry.mu; a release
\* is of the mutex the goroutine took last, in the mode it took it
RECURSIVE Replay(_, _)
Replay(evs, st) ==
  IF evs = <<>> THEN st
  ELSE LET t    == Head(evs)[1]
           op   == Head(evs)[2]
           mu   == Head(evs)[3]
           held == st.held
           mode == IF op \in {"RLock", "RUnlock"} THEN "R" ELSE "W"
           top  == IF held[t] = <<>> THEN <<"none", "none">> ELSE held[t][Len(held[t])]
       IN IF op \in {"RLock", "Lock"}
          THEN Replay(Tail(evs),
                 [ok |-> /\ st.ok
                         /\ ~Holds(held, t, mu)
                         /\ ~(mu = BusMu /\ Holds(held, t, RegMu))
                         /\ \A u \in Goroutines \ {t} :
                              \A i \in 1..Len(held[u]) :
                                held[u][i][2] = mu
                                  => (mode = "R" /\ held[u][i][1] = "R"),
                  held |-> [held EXCEPT ![t] = Append(@, <<mode, mu>>)]])
          ELSE Replay(Tail(evs),
                 [ok |-> st.ok /\ top = <<mode, mu>>,
                  held |-> [held EXCEPT ![t] =
                              IF @ = <<>> THEN @ ELSE SubSeq(@, 1, Len(@) - 1)]])

\* goroutine t waits: for the queue (a send), for the workers (wg.Wait), for
\* b.mu (Close's Lock)
ChannelWait(t) ==
  IF IsWorker(t) THEN wpc[t[2]] = "parked" ELSE pc[t[2]] \in {"select", "parked"}
GroupWait(t) == ~IsWorker(t) /\ pc[t[2]] = "wait"
MutexWait(t) == ~IsWorker(t) /\ pc[t[2]] = "lock"

\* C33: in every step the lock operations are in order: b.mu is never
\* acquired by a goroutine that holds registry.mu (so when a goroutine holds
\* both, b.mu was taken first), every release matches, and the mutexes held
\* after the step are those of the goroutines' positions. registry.mu is
\* taken and released within one step, so it is never held across a wait; a
\* goroutine waiting for the workers or for b.mu holds no mutex; the only
\* goroutines that wait holding a mutex are publishers holding b.mu for
\* reading while they wait for the queue (or run the handlers of PublishSync),
\* and the workers whose receive they wait for never take b.mu. So no
\* goroutine holding one of the two mutexes waits for one that holds the other.
C33_LockOrder ==
  [][ LET r == Replay(locks'.evs, [ok |-> TRUE, held |-> HeldNow]) IN
      /\ r.ok
      /\ r.held = HeldNow'
      /\ \A t \in Goroutines :
           /\ ~Holds(HeldNow', t, RegMu)
           /\ (GroupWait(t) \/ MutexWait(t))' => HeldNow'[t] = <<>>
           /\ IsWorker(t) => HeldNow'[t] = <<>>
           /\ Holds(HeldNow', t, BusMu) => ChannelWait(t)' \/ pc'[t[2]] = "sync"
      /\ \A i \in 1..Len(locks'.evs) :
           IsWorker(locks'.evs[i][1]) => locks'.evs[i][3] = RegMu ]_vars

\* a Subscribe call took registry.mu inside b.mu while a publisher was
\* parked on the full queue holding b.mu for reading
C33_Witness ==
  /\ locks.evs = << RLockBus(Me(2)), <<Me(2), "Lock", RegMu>>,
                    <<Me(2), "Unlock", RegMu>>, RUnlockBus(Me(2)) >>
  /\ pc[1] = "parked"
  /\ nextSub = 1

\* ------------------------------------------------- ownership of an envelope
\* The bus with two workers: callers subscribe handlers and publish through
\* the queue; failed envelopes are sent again and may be received by the
\* other worker.
OwnCalls == 4

OwnInit ==
  /\ workers = 2
  /\ maxRetries \in 1..MaxMaxRetries
  /\ dlqHandler = NilHandler
  /\ qcap = QueueCap
  /\ observer = FALSE
  /\ traced = FALSE
  /\ locks = NoLocks
  /\ callsLeft = OwnCalls
  /\ Fresh

OwnNext ==
  \/ \E c \in Clients, t \in Topics : Publish(c, t, "live")
  \/ \E c \in Clients : SelectSend(c)
  \/ \E c \in Clients : SelectPark(c)
  \/ \E c \in Clients, p \in Topics, h \in Handlers : Subscribe(c, p, h)
  \/ \E w \in Workers : WorkerRecv(w)
  \/ \E w \in Workers : WorkerResolve(w)
  \/ \E w \in Workers : WorkerInvoke(w)

OwnSpec == OwnInit /\ [][OwnNext]_vars

\* the workers that hold the envelope of message id, the callers that hold it
\* (Publish has made it and not yet sent it)
HoldingWorkers(id) == { w \in Workers : wenv[w].id = id }
HoldingCallers(id) ==
  { c \in Clients : pc[c] \in {"select", "parked"} /\ arg[c].env.id = id }

\* C34: the envelope of a message is in one place: before Publish has sent it
\* its caller holds it; from then on until the message reaches a terminal
\* state it is either at exactly one position of the queue or held by exactly
\* one worker (also while that worker is parked sending it again), never
\* both; afterwards it is nowhere. A dispatch attempt of a message is made by
\* the one worker that holds its envelope, and the retry counter of an
\* envelope changes only in the step of that worker's failed dispatch, by one.
C34_EnvelopeOwnedOnce ==
  [][ \A id \in DOMAIN msgs' :
        LET inQueue == Occurrences(queue', id)
            held    == Cardinality(HoldingWorkers(id)')
            byCall  == Cardinality(HoldingCallers(id)')
        IN /\ inQueue + held + byCall <= 1
           /\ msgs'[id].status = "created" => byCall = 1
           /\ msgs'[id].status = "accepted" => inQueue + held = 1
           /\ msgs'[id].status \in Terminal \cup {"Cancelled"}
                => inQueue + held + byCall = 0
           /\ id \in DOMAIN msgs =>
                /\ msgs'[id].attempts # msgs[id].attempts
                     => /\ \E w \in Workers :
                             /\ HoldingWorkers(id) = {w}
                             /\ wpc[w] = "invoke" /\ wpc'[w] # "invoke"
                        /\ Occurrences(queue, id) = 0
                        /\ msgs'[id].attempts = msgs[id].attempts + 1
                /\ \A e \in Envelopes : \A f \in Envelopes' :
                     (e.id = id /\ f.id = id /\ f.retries # e.retries)
                       => /\ f.retries = e.retries + 1
                          /\ \E w \in Workers :
                               /\ HoldingWorkers(id) = {w}
                               /\ wenv[w] = e
                               /\ wpc[w] = "invoke" /\ wpc'[w] # "invoke" ]_vars

\* a message failed in the hands of one worker, was sent again and is now
\* held by the other worker, while the first holds another message
C34_Witness ==
  /\ wenv[2].id = 1 /\ wenv[2].retries = 1 /\ wpc[2] = "invoke"
  /\ wenv[1].id = 2 /\ wpc[1] = "invoke"
  /\ msgs[1].attempts = 1

\* ------------------------------------------- what decides a dispatch's fate
\* The bus with a dead-letter handler: callers register middleware that
\* short-circuits with nil (as FilterMiddleware does for a message it
\* rejects) or returns an error after its inner handler returned, subscribe
\* handlers and publish through the queue.
VerdictCalls == 4
VerdictMiddlewares == { "block", "failAfter" }

VerdictInit ==
  /\ workers = 1
  /\ maxRetries \in 1..MaxMaxRetries
  /\ dlqHandler = "hOk"
  /\ qcap = QueueCap
  /\ observer = FALSE
  /\ traced = FALSE
  /\ locks = NoLocks
  /\ callsLeft = VerdictCalls
  /\ Fresh

VerdictNext ==
  \/ \E c \in Clients, t \in Topics : Publish(c, t, "live")
  \/ \E c \in Clients : SelectSend(c)
  \/ \E c \in Clients : SelectPark(c)
  \/ \E c \in Clients, p \in Topics, h \in Handlers : Subscribe(c, p, h)
  \/ \E c \in Clients, m \in VerdictMiddlewares : Use(c, m)
  \/ \E w \in Workers : WorkerRecv(w)
  \/ \E w \in Workers : WorkerResolve(w)
  \/ \E w \in Workers : WorkerInvoke(w)

VerdictSpec == VerdictInit /\ [][VerdictNext]_vars

\* what the outermost handler of the chain mws around the handlers hs
\* returns, read from the outside in: the first middleware that does not
\* return its inner handler's value decides; with none, the handlers do
RECURSIVE Outermost(_, _)
Outermost(mws, hs) ==
  IF mws = <<>> THEN LastFailure(hs)
  ELSE IF Head(mws) = "block" THEN Nil
  ELSE IF Head(mws) \in {"fail", "failAfter"} THEN ErrHandler
  ELSE Outermost(Tail(mws), hs)

\* the number of handlers of hs that run: none behind a middleware that does
\* not call its inner handler
RECURSIVE HandlersRun(_, _)
HandlersRun(mws, hs) ==
  IF mws = <<>> THEN Len(hs)
  ELSE IF Head(mws) \in {"block", "fail"} THEN 0
  ELSE HandlersRun(Tail(mws), hs)

\* C35: what becomes of an envelope a worker dispatched depends only on what
\* the outermost handler of the middleware chain returned. When it returned
\* nil the envelope is discarded: the message is a success, nothing is sent
\* on the queue, the dead-letter handler is not called; this also when a
\* middleware returned nil without calling its inner handler, so that no
\* handler ran, and whatever the handlers would have returned. When it
\* returned an error the counter is incremented and the envelope is sent
\* again or, the retries exhausted, handed to the dead-letter handler; this
\* also when every handler ran and returned nil.
C35_OutermostDecides ==
  [][ \A w \in Workers :
        (wpc[w] = "invoke" /\ wpc'[w] # "invoke")
          => LET env == wenv[w]
                 id  == env.id
                 hs  == whandlers[w]
             IN /\ msgs'[id].attempts = msgs[id].attempts + 1
                /\ msgs'[id].calls = msgs[id].calls + HandlersRun(middleware, hs)
                /\ IF Outermost(middleware, hs) = Nil
                   THEN /\ msgs'[id].status = "Success"
                        /\ msgs'[id].dlq = msgs[id].dlq
                        /\ queue' = queue /\ sendq' = sendq
                        /\ wenv'[w] = NoEnv
                        /\ Occurrences(queue', id) = 0
                   ELSE IF env.retries + 1 < maxRetries
                   THEN /\ msgs'[id].status = "accepted"
                        /\ msgs'[id].dlq = msgs[id].dlq
                        /\ \/ queue' = queue \o << [env EXCEPT !.retries = @ + 1] >>
                           \/ /\ wpc'[w] = "parked"
                              /\ wenv'[w] = [env EXCEPT !.retries = @ + 1]
                   ELSE /\ msgs'[id].status = "DeadLettered"
                        /\ msgs'[id].dlq = msgs[id].dlq + 1
                        /\ queue' = queue
                        /\ wenv'[w] = NoEnv ]_vars

\* a message whose only handler always fails was discarded as a success
\* without the handler running, behind a middleware that returned nil
C35_Witness ==
  /\ middleware = <<"block">>
  /\ nextSub = 1 /\ subscriptions[1].handler = "hFail"
  /\ \E id \in DOMAIN msgs :
       /\ msgs[id].status = "Success" /\ msgs[id].attempts = 1
       /\ msgs[id].calls = 0 /\ msgs[id].dlq = 0
       /\ Occurrences(queue, id) = 0

\* ... and a message whose only handler returned nil, twice, was handed to the
\* dead-letter handler behind a middleware that returned an error
C35_WitnessError ==
  /\ middleware = <<"failAfter">>
  /\ nextSub = 1 /\ subscriptions[1].handler = "hOk"
  /\ maxRetries = 2
  /\ \E id \in DOMAIN msgs :
       /\ msgs[id].status = "DeadLettered" /\ msgs[id].attempts = 2
       /\ msgs[id].calls = 2 /\ msgs[id].dlq = 1

\* -------------------------------------------------- retries run every handler
\* Handler A, which always returns nil, and handler B, which always fails, are
\* subscribed to one topic, in either order; then messages are published to
\* the topic through the queue. No middleware, no dead-letter handler.
AgainCalls == 5
HandlerA == "hOk"
HandlerB == "hFail"

AgainInit ==
  /\ workers = 1
  /\ maxRetries \in 1..MaxMaxRetries
  /\ dlqHandler = NilHandler
  /\ qcap = QueueCap + 1
  /\ observer = FALSE
  /\ traced = TRUE
  /\ locks = NoLocks
  /\ callsLeft = AgainCalls
  /\ Fresh

\* handler h has been subscribed
Subscribed(h) == \E i \in DOMAIN subscriptions : subscriptions[i].handler = h

AgainNext ==
  \/ \E c \in Clients, t \in Topics, h \in {HandlerA, HandlerB} :
       ~Subscribed(h) /\ Subscribe(c, t, h)
  \/ \E c \in Clients, t \in Topics :
       Subscribed(HandlerA) /\ Subscribed(HandlerB) /\ Publish(c, t, "live")
  \/ \E c \in Clients : SelectSend(c)
  \/ \E c \in Clients : SelectPark(c)
  \/ \E w \in Workers : WorkerRecv(w)
  \/ \E w \in Workers : WorkerResolve(w)
  \/ \E w \in Workers : WorkerInvoke(w)

AgainSpec == AgainInit /\ [][AgainNext]_vars

\* C36: with A and B subscribed to the topic and maxRetries = k >= 1, every
\* dispatch attempt of a message, the first and each retry, resolves the
\* handlers anew, A and B once each, and invokes both, A once and B once,
\* whatever A returned on the attempt before; every attempt fails (B fails),
\* so the message goes through exactly k attempts before it is given up. At
\* every moment A and B have each run once per attempt made (calls is twice
\* the attempts) and when the message is given up each has run exactly k times.
C36_RetryRunsAllHandlers ==
  [][ /\ \A w \in Workers :
           /\ (wpc[w] = "resolve" /\ wpc'[w] # "resolve")
                => /\ wpc'[w] = "invoke"
                   /\ Len(whandlers'[w]) = 2
                   /\ Count(whandlers'[w], HandlerA) = 1
                   /\ Count(whandlers'[w], HandlerB) = 1
           /\ (wpc[w] = "invoke" /\ wpc'[w] # "invoke")
                => LET id == wenv[w].id IN
                   /\ msgs'[id].attempts = msgs[id].attempts + 1
                   /\ msgs'[id].attempts = wenv[w].retries + 1
                   /\ Len(msgs'[id].evs) = 2
                   /\ Count(msgs'[id].evs, <<"handler", HandlerA>>) = 1
                   /\ Count(msgs'[id].evs, <<"handler", HandlerB>>) = 1
                   /\ msgs'[id].calls = msgs[id].calls + 2
                   /\ msgs'[id].status \in {"accepted", "Dropped"}
                   /\ msgs'[id].status = "Dropped" <=> msgs'[id].attempts = maxRetries
      /\ \A id \in DOMAIN msgs' :
           /\ msgs'[id].calls = 2 * msgs'[id].attempts
           /\ msgs'[id].attempts <= maxRetries
           /\ msgs'[id].status \notin {"Success", "NoMatch", "DeadLettered"}
           /\ msgs'[id].status = "Dropped"
                => /\ msgs'[id].attempts = maxRetries
                   /\ msgs'[id].calls = 2 * maxRetries ]_vars

\* with maxRetries = 2 a message was given up after two attempts, A and B
\* having run twice each
C36_Witness ==
  /\ maxRetries = 2
  /\ nextMsg = 1
  /\ msgs[1].status = "Dropped"
  /\ msgs[1].attempts = 2
  /\ msgs[1].calls = 4
  /\ Count(msgs[1].evs, <<"handler", HandlerA>>) = 1

\* ------------------------------------------ a retry that finds no handler
\* C37: a worker that receives an envelope sent again after a failed attempt
\* (its counter is above 0) and finds no subscription matching its topic, the
\* subscriptions having been removed meanwhile, drops it: the worker lets go
\* of the envelope, the dead-letter handler, though set, is not called, no
\* attempt is made, nothing is sent on the queue and the observer hears
\* nothing. The message stays as it is from then on: its failed attempts are
\* all it has, it is never dead-lettered, never queued again.
C37_RetryWithoutHandlersDrops ==
  [][ /\ \A w \in Workers :
           (wpc[w] = "resolve" /\ wpc'[w] # "resolve"
              /\ wenv[w].retries > 0 /\ Matching(wenv[w].topic) = {})
             => LET id == wenv[w].id IN
                /\ dlqHandler # NilHandler
                /\ msgs[id].attempts = wenv[w].retries
                /\ msgs[id].calls >= 1
                /\ msgs[id].dlq = 0
                /\ msgs' = SetMsg(id, "status", "NoMatch")
                /\ wpc'[w] = "recv" /\ wenv'[w] = NoEnv
                /\ UNCHANGED << queue, sendq, notified, panicked >>
      /\ \A id \in DOMAIN msgs :
           (msgs[id].status = "NoMatch" /\ msgs[id].attempts > 0)
             => /\ msgs'[id] = msgs[id]
                /\ msgs'[id].dlq = 0
                /\ msgs[id].attempts < maxRetries
                /\ Occurrences(queue', id) = 0
                /\ \A w \in Workers : wenv'[w].id # id ]_vars

\* the message failed once, its subscription was removed while it waited in
\* the queue, and the retry dropped it without a call of the dead-letter handler
C37_Witness ==
  /\ maxRetries = 2
  /\ nextSub = 1 /\ subscriptions = <<>>
  /\ notified.unsubscribe = 1
  /\ notified.processed = 1
  /\ queue = <<>>
  /\ \A w \in Workers : wpc[w] = "recv"
  /\ \E id \in DOMAIN msgs :
       /\ msgs[id].status = "NoMatch"
       /\ msgs[id].attempts = 1 /\ msgs[id].calls = 1
       /\ msgs[id].dlq = 0 /\ msgs[id].dlqGot = <<>>

\* ------------------------------------------- errors of synchronous publishes
\* The bus with a dead-letter handler and any maxRetries: callers subscribe
\* handlers that fail or not and publish to the topic, synchronously and
\* through the queue.
SyncErrCalls == 4

SyncErrInit ==
  /\ workers = 1
  /\ maxRetries \in 0..MaxMaxRetries
  /\ dlqHandler = "hOk"
  /\ qcap = QueueCap
  /\ observer = FALSE
  /\ traced = FALSE
  /\ locks = NoLocks
  /\ callsLeft = SyncErrCalls
  /\ Fresh

SyncErrNext ==
  \/ \E c \in Clients, t \in Topics : PublishSync(c, t)
  \/ \E c \in Clients : SyncInvoke(c)
  \/ \E c \in Clients, t \in Topics : Publish(c, t, "live")
  \/ \E c \in Clients : SelectSend(c)
  \/ \E c \in Clients : SelectPark(c)
  \/ \E c \in Clients, p \in Topics, h \in Handlers : Subscribe(c, p, h)
  \/ \E w \in Workers : WorkerRecv(w)
  \/ \E w \in Workers : WorkerResolve(w)
  \/ \E w \in Workers : WorkerInvoke(w)

SyncErrSpec == SyncErrInit /\ [][SyncErrNext]_vars

\* the step belongs to a PublishSync call: its start or its return
SyncStep ==
  \/ StartsCall /\ StartedOp = "PublishSync"
  \/ \E c \in Clients : pc[c] = "sync" /\ pc'[c] = "idle"

\* the messages made by PublishSync
SyncMsgs == { id \in DOMAIN msgs : msgs[id].status \in {"Sync", "SyncDone"} }

\* C38: a step of a PublishSync call leaves the queue, the parked senders and
\* the workers as they are and calls the dead-letter handler for no message;
\* the call invokes each handler it resolved once, in one attempt, and returns
\* the error of the last handler that failed; the message of a PublishSync
\* call is never on the queue, never held by a worker, never dispatched a
\* second time and never dead-lettered, and after the call returned its
\* history does not change, whatever maxRetries is and although a
\* dead-letter handler is set.
C38_SyncErrorOnlyReturned ==
  [][ /\ SyncStep
           => /\ UNCHANGED << queue, sendq, wpc, wenv, whandlers >>
              /\ \A id \in DOMAIN msgs : msgs'[id].dlq = msgs[id].dlq
      /\ \A c \in Clients :
           (pc[c] = "sync" /\ pc'[c] = "idle")
             => LET id == arg[c].id IN
                /\ last' = [op |-> "PublishSync", ret |-> LastFailure(arg[c].handlers)]
                /\ msgs'[id].status = "SyncDone"
                /\ msgs'[id].attempts = 1
                /\ msgs'[id].calls = Len(arg[c].handlers)
      /\ \A id \in SyncMsgs :
           /\ msgs'[id].status \in {"Sync", "SyncDone"}
           /\ msgs'[id].dlq = 0
           /\ msgs'[id].attempts <= 1
           /\ Occurrences(queue', id) = 0
           /\ \A w \in Workers : wenv'[w].id # id
           /\ \A c \in Clients :
                (pc'[c] \in {"select", "parked"}) => arg'[c].env.id # id
           /\ msgs[id].status = "SyncDone" => msgs'[id] = msgs[id] ]_vars

\* with maxRetries = 2 and a dead-letter handler set, a PublishSync call
\* whose handler failed has returned the handler's error; the handler ran once
\* and the queue is empty
C38_Witness ==
  /\ maxRetries = 2 /\ dlqHandler # NilHandler
  /\ last = [op |-> "PublishSync", ret |-> ErrHandler]
  /\ nextMsg = 1
  /\ msgs[1].status = "SyncDone" /\ msgs[1].attempts = 1 /\ msgs[1].calls = 1
  /\ msgs[1].dlq = 0
  /\ queue = <<>> /\ sendq = <<>>
  /\ \A w \in Workers : wpc[w] = "recv"

\* ---------------------------------------------------- the retry counter
\* C39: an envelope is made with its counter at 0; the counter changes only
\* in the step of a failed dispatch of the envelope, by +1; wherever an
\* envelope is, its counter is the number of (failed) attempts made on its
\* message and at most max(1, maxRetries), which also bounds the value the
\* counter has when the envelope is given up; and every envelope in the queue
\* has its counter at 0 or below maxRetries.
C39_RetryCounterBounds ==
  [][ /\ \A f \in Envelopes' :
           /\ (\A e \in Envelopes : e.id # f.id) => f.retries = 0
           /\ f.retries = msgs'[f.id].attempts
           /\ f.retries >= 0 /\ f.retries <= Max(1, maxRetries)
      /\ \A e \in Envelopes : \A f \in Envelopes' :
           (e.id = f.id /\ f.retries # e.retries)
             => /\ f.retries = e.retries + 1
                /\ \E w \in Workers :
                     /\ wpc[w] = "invoke" /\ wenv[w] = e
                     /\ Outermost(middleware, whandlers[w]) # Nil
      /\ \A w \in Workers :
           (wpc[w] = "invoke" /\ wenv'[w] # wenv[w])
             => msgs'[wenv[w].id].attempts = wenv[w].retries + 1
      /\ \A id \in DOMAIN msgs' : msgs'[id].attempts <= Max(1, maxRetries)
      /\ \A i \in 1..Len(queue') :
           queue'[i].retries = 0 \/ queue'[i].retries < maxRetries ]_vars

\* with maxRetries = 2 one message was given up after two failed attempts and
\* the envelope of another waits in the queue with its counter at 1
C39_Witness ==
  /\ maxRetries = 2
  /\ \E id \in DOMAIN msgs :
       msgs[id].status = "DeadLettered" /\ msgs[id].attempts = 2
  /\ \E i \in 1..Len(queue) :
       queue[i].retries = 1 /\ msgs[queue[i].id].attempts = 1

\* ... and with maxRetries = 0 a message was given up after its one attempt,
\* the counter at 1
C39_WitnessZero ==
  /\ maxRetries = 0
  /\ \E id \in DOMAIN msgs :
       msgs[id].status = "DeadLettered" /\ msgs[id].attempts = 1

\* ------------------------------------------------- Subscribe against Close
\* Callers subscribe, with Subscribe taken step by step, and publish through
\* the queue while other callers close the bus.
ShutCalls == 4
ShutHandlers == { "hOk", NilHandler }

ShutInit ==
  /\ workers = 1
  /\ maxRetries = 1
  /\ dlqHandler = NilHandler
  /\ qcap = QueueCap
  /\ observer = TRUE
  /\ traced = FALSE
  /\ locks = NoLocks
  /\ callsLeft = ShutCalls
  /\ Fresh

ShutNext ==
  \/ \E c \in Clients, p \in Patterns, h \in ShutHandlers : SubscribeCheck(c, p, h)
  \/ \E c \in Clients : SubscribeAdd(c)
  \/ \E c \in Clients, t \in Topics : Publish(c, t, "live")
  \/ \E c \in Clients : SelectSend(c)
  \/ \E c \in Clients : SelectPark(c)
  \/ \E c \in Clients : CloseCall(c)
  \/ \E c \in Clients : CloseLock(c)
  \/ \E c \in Clients : CloseQueue(c)
  \/ \E c \in Clients : CloseFinish(c)
  \/ \E w \in Workers : WorkerRecv(w)
  \/ \E w \in Workers : WorkerExit(w)
  \/ \E w \in Workers : WorkerResolve(w)
  \/ \E w \in Workers : WorkerInvoke(w)

ShutSpec == ShutInit /\ [][ShutNext]_vars

\* the step puts a subscription into the registry
RegistryGrows == \E i \in DOMAIN subscriptions' : i \notin DOMAIN subscriptions

\* C40: once a Close call has returned nil both registry maps are empty and
\* stay empty. A Subscribe call that starts with the closed flag set returns
\* the bus-closed error and leaves the registry alone; one that got past the
\* flag test keeps the flag from being set until it has returned, so a
\* subscription is only ever added with the flag not set, hence before the
\* Close call that sets it clears the registry; when that Close call clears
\* the registry no Subscribe call is between its test and its return.
C40_NoSubscriptionSurvivesClose ==
  [][ /\ closeReturned' => (subscriptions' = <<>> /\ patterns' = <<>>)
      /\ RegistryGrows => (~closed /\ ~closed' /\ ~closeReturned')
      /\ (StartsCall /\ StartedOp = "Subscribe" /\ closed)
           => /\ pc' = pc
              /\ last' = [op |-> "Subscribe", ret |-> ErrBusClosed]
              /\ UNCHANGED << subscriptions, patterns, nextSub >>
      /\ (\E c \in Clients : pc'[c] = "add") => ~closed'
      /\ ClearsAndReturns
           => /\ \A c \in Clients : pc[c] # "add"
              /\ subscriptions' = <<>> /\ patterns' = <<>> ]_vars

\* a subscription was added and then cleared by the Close call that returned,
\* and a Subscribe call made afterwards was refused
C40_Witness ==
  /\ closeReturned
  /\ nextSub = 1 /\ notified.subscribe = 1 /\ notified.close = 1
  /\ subscriptions = <<>> /\ patterns = <<>>
  /\ last = [op |-> "Subscribe", ret |-> ErrBusClosed]

\* ... and a Close call waits for b.mu while a Subscribe call, past its test of
\* the flag, has yet to add its subscription
C40_WitnessConcurrent ==
  \E c, d \in Clients : pc[c] = "add" /\ pc[d] = "lock" /\ ~closed

====
